---- MODULE Spec2Model ----
(***************************************************************************)
(* State-machine model of the LiDAR acquisition and diagnostic scripts of  *)
(* Unitree_Go2_Development.  Each script is an entry point of its own; a   *)
(* behaviour of the model runs exactly one of them, chosen by `prog` in    *)
(* the initial state.  Time is counted in whole seconds on `clock`, the    *)
(* console output of a script is the sequence `log`.                       *)
(***************************************************************************)
EXTENDS Integers, Sequences, FiniteSets, TLC

VARIABLES
    prog,          \* the script that is running
    pc,            \* control position of the main thread of the script
    clock,         \* seconds elapsed since the script started
    log,           \* what the script has printed, in order
    running,       \* self.running of the script's object
    packet_count,  \* self.packet_count of the script's object
    sock,          \* the local variable `sock`: "unbound", "open" or "closed"
    idx,           \* position of the for loop of main
    invoked,       \* the ladder methods called so far, in call order
    attempts,      \* the finished calls, one record each
    t0,            \* clock value when the current call started
    ret,           \* how the current call ended, as its caller sees it
    cond,          \* what the environment did to the current call
    printed,       \* what the current call has printed
    skips,         \* packets the current raw capture has skipped
    mainpc,        \* control position of the main thread beside a reader thread
    th,            \* the threads and subprocesses a script starts, one
                   \* record each
    bound,         \* the kernel's UDP sockets bound to the data port
    found_devices, \* the addresses a scan has collected
    sent,          \* the commands the current activation call has sent; in
                   \* the sniffer, the packets the raw capture has received
    success        \* the success flag of a main function

\* the variables of the scripts that start threads or scan for devices
more == <<mainpc, th, bound, found_devices, sent, success>>

vars == <<prog, pc, clock, log, running, packet_count, sock, idx, invoked,
          attempts, t0, ret, cond, printed, skips, more>>

(***************************************************************************)
(* Bounds of the model.                                                    *)
(***************************************************************************)
\* non-matching packets the environment delivers to one raw capture
MaxSkips == 2
\* matching packets one scapy sniff may observe
MaxSniffed == 2
\* datagrams a bridge node receives
MaxPackets == 2
\* status reports the timer of the LiDAR bridge makes
MaxReports == 2

(***************************************************************************)
(* Program constants.                                                      *)
(***************************************************************************)
LidarPort == 2368
Method1Timeout == 5
Method3Timeout == 10
TcpdumpSeconds == 10
SniffTimeout == 10
ProtoUDP == 17
CaptureTimeout == 5
SafeDeadline == 30
SafeRecvTimeout == 5
SafeSleep == 2
HesaiMinSize == 512
HesaiHeaderWindow == 20
HesaiSizeLow == 1000
HesaiSizeHigh == 2000

(***************************************************************************)
(* Helpers.                                                                *)
(***************************************************************************)
\* Python's `needle in hay` on byte strings and on text
Contains(hay, needle) ==
    \E i \in 0..(Len(hay) - Len(needle)) :
        \A j \in 1..Len(needle) : hay[i + j] = needle[j]

\* when, within a wait of T seconds, the environment lets something happen:
\* at once, or in the last second before the timeout
Delays(T) == {0, T - 1}

\* the call outcomes a caller can observe
ReturnsTrue == "True"
ReturnsFalse == "False"
RaisesException == "Exception"
RaisesKeyboardInterrupt == "KeyboardInterrupt"

(***************************************************************************)
(* enhanced_lidar_network_sniffer.py                                       *)
(***************************************************************************)
\* the ladder of main, in list order
methods == << "method1_direct_udp", "method4_tcpdump_analysis",
              "method3_raw_socket", "method2_promiscuous_sniff" >>

\* the digits of the port string '2368' searched for in tcpdump's output
PortString == << 2, 3, 6, 8 >>

\* stdout of the tcpdump subprocess: a sequence of lines, a line a sequence
\* of characters (digits stand for themselves, 10 for any other character):
\* nothing (also what is left when tcpdump is not installed and `timeout`
\* writes its complaint to stderr), an empty line, a line with the port, a
\* line without, two lines of which the second has the port
TcpdumpOutputs ==
    { << >>,
      << << >> >>,
      << <<10, 2, 3, 6, 8, 10>> >>,
      << <<10, 2, 3, 6, 9, 10>> >>,
      << <<10, 8, 6, 3, 2>>, <<2, 3, 6, 8>> >> }

\* method3_raw_socket, line 77: the bytes struct.unpack reads as the UDP header
UdpHeaderBytes == 8

\* packets a raw IPPROTO_UDP socket can deliver.  ihl is the length of the
\* IP header in 32-bit words (5 without options), protocol its protocol
\* field, words the 16-bit words of the packet after its first 20 bytes:
\* the IP options when there are any, then the UDP header (source port,
\* destination port, length, checksum) as far as the packet goes.  The
\* packets: to the port, to another port, of another protocol; with a
\* 4-byte IP option (stream identifier 0x88 0x04 and a 16-bit identifier)
\* before a UDP header to the port and to another port; and cut after the
\* UDP source port.
RawPackets ==
    { [ihl |-> 5, protocol |-> ProtoUDP,
       words |-> <<40000, LidarPort, 1208, 0>>],
      [ihl |-> 5, protocol |-> ProtoUDP,
       words |-> <<40000, LidarPort + 1, 1208, 0>>],
      [ihl |-> 5, protocol |-> 6,
       words |-> <<40000, LidarPort, 0, 0>>],
      [ihl |-> 6, protocol |-> ProtoUDP,
       words |-> <<34820, 7, 40000, LidarPort, 1208, 0>>],
      [ihl |-> 6, protocol |-> ProtoUDP,
       words |-> <<34820, LidarPort, 40000, LidarPort + 1, 1208, 0>>],
      [ihl |-> 5, protocol |-> ProtoUDP,
       words |-> <<40000>>] }

\* method3_raw_socket, line 77: struct.unpack('!HHHH', packet[20:28]) has
\* its 8 bytes
UnpackSucceeds(packet) == 2 * Len(packet.words) >= UdpHeaderBytes

\* method3_raw_socket, lines 77-78: udp_header[1], the second 16-bit word
\* after the first 20 bytes of the packet
dest_port(packet) == packet.words[2]

MoreInit ==
    /\ mainpc = "none"
    /\ th = << >>
    /\ bound = {}
    /\ found_devices = << >>
    /\ sent = << >>
    /\ success = FALSE

CommonInit ==
    /\ MoreInit
    /\ clock = 0
    /\ log = << >>
    /\ running = TRUE
    /\ packet_count = 0
    /\ sock = "unbound"
    /\ idx = 1
    /\ invoked = << >>
    /\ attempts = << >>
    /\ t0 = 0
    /\ ret = "none"
    /\ cond = "none"
    /\ printed = << >>
    /\ skips = 0

InitSniffer ==
    /\ prog = "enhanced_lidar_network_sniffer"
    /\ CommonInit
    /\ pc = "loop"

\* a method call ends: `how` is what the caller sees, `why` what happened
Finish(how, why, out, dt) ==
    /\ ret' = how
    /\ cond' = why
    /\ printed' = printed \o out
    /\ log' = log \o out
    /\ clock' = clock + dt
    /\ pc' = "returned"

\* main, lines 134-137: the for loop calls the next method of the list
TryMethod ==
    /\ prog = "enhanced_lidar_network_sniffer"
    /\ pc = "loop"
    /\ idx <= Len(methods)
    /\ invoked' = Append(invoked, methods[idx])
    /\ log' = Append(log, <<"Trying", methods[idx]>>)
    /\ pc' = methods[idx]
    /\ t0' = clock
    /\ ret' = "none"
    /\ cond' = "none"
    /\ printed' = << >>
    /\ skips' = 0
    /\ UNCHANGED <<more, prog, clock, running, packet_count, sock, idx, attempts>>

\* method1_direct_udp, lines 22-26 (and 36-40 when they fail): socket,
\* setsockopt, bind, settimeout
Method1Open ==
    /\ prog = "enhanced_lidar_network_sniffer"
    /\ pc = "method1_direct_udp"
    /\ \E env \in {"ok", "SocketError", "PortInUse"} :
         CASE env = "ok" ->
                /\ sock' = "open"
                /\ pc' = "method1_recv"
                /\ UNCHANGED <<ret, cond, printed, log, clock>>
           [] env = "PortInUse" ->
                \* bind raises OSError: except prints, finally closes
                /\ sock' = "closed"
                /\ Finish(ReturnsFalse, env, << <<"Method 1 failed", env>> >>, 0)
           [] env = "SocketError" ->
                \* socket() raises: except prints, then `sock.close()` in
                \* finally finds `sock` unassigned and raises in its turn
                /\ IF sock = "unbound"
                     THEN /\ sock' = sock
                          /\ Finish(RaisesException, env,
                                    << <<"Method 1 failed", env>> >>, 0)
                     ELSE /\ sock' = "closed"
                          /\ Finish(ReturnsFalse, env,
                                    << <<"Method 1 failed", env>> >>, 0)
    /\ UNCHANGED <<more, prog, running, packet_count, idx, invoked, attempts, t0, skips>>

\* method1_direct_udp, lines 28-40: one recvfrom under the 5 s timeout
Method1Recv ==
    /\ prog = "enhanced_lidar_network_sniffer"
    /\ pc = "method1_recv"
    /\ sock' = "closed"
    /\ IF ~running
         THEN /\ Finish(ReturnsFalse, "NotRunning", << >>, 0)
              /\ UNCHANGED packet_count
         ELSE \E env \in {"Data", "Timeout", "RecvError", "Interrupt"} :
              \E d \in Delays(Method1Timeout) :
                CASE env = "Data" ->
                       /\ packet_count' = packet_count + 1
                       /\ Finish(ReturnsTrue, env,
                                 << <<"Method 1 - Packet", packet_count + 1>> >>, d)
                  [] env = "Timeout" ->
                       /\ d = 0
                       /\ UNCHANGED packet_count
                       /\ Finish(ReturnsFalse, env, << >>, Method1Timeout)
                  [] env = "RecvError" ->
                       /\ UNCHANGED packet_count
                       /\ Finish(ReturnsFalse, env,
                                 << <<"Method 1 failed", env>> >>, d)
                  [] env = "Interrupt" ->
                       /\ UNCHANGED packet_count
                       /\ Finish(RaisesKeyboardInterrupt, env, << >>, d)
    /\ UNCHANGED <<more, prog, running, idx, invoked, attempts, t0, skips>>

\* Method4Tcpdump that takes any output of the tool for a success
Method4TcpdumpAnyOutput ==
    /\ prog = "enhanced_lidar_network_sniffer"
    /\ pc = "method4_tcpdump_analysis"
    /\ \/ /\ Finish(ReturnsFalse, "SubprocessUnavailable",
                    << <<"Method 4 failed", "SubprocessUnavailable">> >>, 0)
          /\ th' = << [cmd |-> "tcpdump", started |-> FALSE, stdout |-> << >>] >>
       \/ \E stdout \in TcpdumpOutputs : \E d \in {0, TcpdumpSeconds} :
            /\ th' = << [cmd |-> "tcpdump", started |-> TRUE,
                         stdout |-> stdout] >>
            /\ IF stdout = << >>
                  THEN Finish(ReturnsFalse, "NoOutput",
                              << <<"Method 4 - no output", 0>> >>, d)
                  ELSE Finish(ReturnsTrue, "Found",
                              << <<"Method 4 - Found", Len(stdout)>> >>, d)
    /\ UNCHANGED <<mainpc, bound, found_devices, sent, success, prog, running,
                   packet_count, sock, idx, invoked, attempts, t0, skips>>

\* method4_tcpdump_analysis, lines 96-117.  th holds the subprocess: whether
\* it was started, and the lines of its standard output.
Method4Tcpdump ==
    /\ prog = "enhanced_lidar_network_sniffer"
    /\ pc = "method4_tcpdump_analysis"
    /\ \/ \* subprocess.run raises (no `timeout` executable): caught
          /\ Finish(ReturnsFalse, "SubprocessUnavailable",
                    << <<"Method 4 failed", "SubprocessUnavailable">> >>, 0)
          /\ th' = << [cmd |-> "tcpdump", started |-> FALSE, stdout |-> << >>] >>
       \/ \E stdout \in TcpdumpOutputs : \E d \in {0, TcpdumpSeconds} :
            LET packets_found ==
                  { i \in 1..Len(stdout) : Contains(stdout[i], PortString) }
            IN  /\ th' = << [cmd |-> "tcpdump", started |-> TRUE,
                             stdout |-> stdout] >>
                /\ IF stdout = << >>
                      THEN Finish(ReturnsFalse, "NoOutput",
                                  << <<"Method 4 - no output", 0>> >>, d)
                      ELSE IF packets_found # {}
                        THEN Finish(ReturnsTrue, "Found",
                               << <<"Method 4 - Found", Cardinality(packets_found)>> >>, d)
                        ELSE Finish(ReturnsFalse, "NoneFound",
                               << <<"Method 4 - No packets found", 0>> >>, d)
    /\ UNCHANGED <<mainpc, bound, found_devices, sent, success, prog, running,
                   packet_count, sock, idx, invoked, attempts, t0, skips>>

\* Method3Open with `sock` assigned before the try (sock = None, closed
\* only when set): the failed open returns False like a timeout
Method3OpenQuiet ==
    /\ prog = "enhanced_lidar_network_sniffer"
    /\ pc = "method3_raw_socket"
    /\ \E env \in {"ok", "PermissionDenied"} :
         IF env = "ok"
           THEN /\ sock' = "open"
                /\ pc' = "method3_recv"
                /\ UNCHANGED <<ret, cond, printed, log, clock>>
           ELSE /\ sock' = "closed"
                /\ Finish(ReturnsFalse, env, << <<"Method 3 failed", env>> >>, 0)
    /\ UNCHANGED <<more, prog, running, packet_count, idx, invoked, attempts, t0, skips>>

\* method3_raw_socket, lines 64-67 (and 87-91 when socket() fails)
Method3Open ==
    /\ prog = "enhanced_lidar_network_sniffer"
    /\ pc = "method3_raw_socket"
    /\ \E env \in {"ok", "PermissionDenied"} :
         CASE env = "ok" ->
                /\ sock' = "open"
                /\ pc' = "method3_recv"
                /\ UNCHANGED <<ret, cond, printed, log, clock>>
           [] env = "PermissionDenied" ->
                \* socket() raises PermissionError: except prints; finally
                \* runs sock.close().  In main `sock` is a local of this
                \* call, never assigned: the close raises UnboundLocalError
                /\ sock' = sock
                /\ Finish(RaisesException, env,
                          << <<"Method 3 failed", env>> >>, 0)
    /\ UNCHANGED <<more, prog, running, packet_count, idx, invoked, attempts, t0, skips>>

\* method3_raw_socket, lines 69-91: one pass of the while loop
Method3Recv ==
    /\ prog = "enhanced_lidar_network_sniffer"
    /\ pc = "method3_recv"
    /\ IF ~running
         THEN /\ sock' = "closed"
              /\ Finish(ReturnsFalse, "NotRunning", << >>, 0)
              /\ UNCHANGED <<packet_count, skips, sent>>
         ELSE \/ \* nothing arrives within the timeout: break, close, False
                 /\ sock' = "closed"
                 /\ Finish(ReturnsFalse,
                           IF skips = 0 THEN "Timeout" ELSE "TimeoutAfterSkips",
                           << >>, Method3Timeout)
                 /\ UNCHANGED <<packet_count, skips, sent>>
              \/ \* Ctrl-C while waiting
                 /\ sock' = "closed"
                 /\ Finish(RaisesKeyboardInterrupt, "Interrupt", << >>, 0)
                 /\ UNCHANGED <<packet_count, skips, sent>>
              \/ \E packet \in RawPackets : \E d \in Delays(Method3Timeout) :
                   CASE packet.protocol = ProtoUDP /\ ~UnpackSucceeds(packet) ->
                          \* struct.error: the outer handler, close, False
                          /\ sock' = "closed"
                          /\ Finish(ReturnsFalse, "ParseError",
                               << <<"Method 3 failed", "ParseError">> >>, d)
                          /\ sent' = Append(sent, [packet |-> packet,
                                                   counted |-> FALSE,
                                                   ended |-> TRUE])
                          /\ UNCHANGED <<packet_count, skips>>
                     [] packet.protocol = ProtoUDP /\ UnpackSucceeds(packet)
                          /\ dest_port(packet) = LidarPort ->
                          /\ packet_count' = packet_count + 1
                          /\ sock' = "closed"
                          /\ Finish(ReturnsTrue, "Data",
                               << <<"Method 3 - Raw packet", packet_count + 1>> >>, d)
                          /\ sent' = Append(sent, [packet |-> packet,
                                                   counted |-> TRUE,
                                                   ended |-> TRUE])
                          /\ UNCHANGED skips
                     [] OTHER ->
                          \* not for the port: back to recvfrom, timeout afresh
                          /\ skips < MaxSkips
                          /\ skips' = skips + 1
                          /\ clock' = clock + d
                          /\ sent' = Append(sent, [packet |-> packet,
                                                   counted |-> FALSE,
                                                   ended |-> FALSE])
                          /\ UNCHANGED <<packet_count, sock, pc, ret, cond,
                                         printed, log>>
    /\ UNCHANGED <<mainpc, th, bound, found_devices, success, prog, running,
                   idx, invoked, attempts, t0>>

\* method2_promiscuous_sniff, lines 45-59
Method2Sniff ==
    /\ prog = "enhanced_lidar_network_sniffer"
    /\ pc = "method2_promiscuous_sniff"
    /\ \/ \* sniff raises (no capture privilege, no interface): caught
          /\ Finish(ReturnsFalse, "SniffError",
                    << <<"Method 2 failed", "SniffError">> >>, 0)
          /\ UNCHANGED <<packet_count, running>>
       \/ \* sniff runs its 10 s and hands n matching packets to the handler
          \E n \in 0..MaxSniffed :
            /\ packet_count' = packet_count + n
            /\ running' = IF n > 0 THEN FALSE ELSE running
            /\ Finish(IF packet_count + n > 0 THEN ReturnsTrue ELSE ReturnsFalse,
                      IF n > 0 THEN "Data" ELSE "Timeout",
                      [k \in 1..n |-> <<"Method 2 - Packet", packet_count + k>>],
                      SniffTimeout)
    /\ UNCHANGED <<more, prog, sock, idx, invoked, attempts, t0, skips>>

\* Observe with `break` missing after a success
ObserveNoBreak ==
    /\ prog = "enhanced_lidar_network_sniffer"
    /\ pc = "returned"
    /\ attempts' = Append(attempts,
                          [method |-> methods[idx], outcome |-> ret,
                           cond |-> cond, start |-> t0, dur |-> clock - t0,
                           printed |-> printed])
    /\ log' = Append(log, <<"SUCCESS or not", methods[idx]>>)
    /\ pc' = IF ret = RaisesKeyboardInterrupt THEN "after" ELSE "loop"
    /\ idx' = IF ret = RaisesKeyboardInterrupt THEN idx ELSE idx + 1
    /\ UNCHANGED <<more, prog, clock, running, packet_count, sock, invoked, t0, ret,
                   cond, printed, skips>>

\* Observe with the `except Exception` clause missing: the error leaves main
ObserveNoExcept ==
    /\ prog = "enhanced_lidar_network_sniffer"
    /\ pc = "returned"
    /\ attempts' = Append(attempts,
                          [method |-> methods[idx], outcome |-> ret,
                           cond |-> cond, start |-> t0, dur |-> clock - t0,
                           printed |-> printed])
    /\ log' = Append(log, <<"outcome", methods[idx]>>)
    /\ pc' = CASE ret = ReturnsFalse -> "loop"
               [] ret = RaisesException -> "crashed"
               [] OTHER -> "after"
    /\ idx' = IF ret = ReturnsFalse THEN idx + 1 ELSE idx
    /\ UNCHANGED <<more, prog, clock, running, packet_count, sock, invoked, t0, ret,
                   cond, printed, skips>>

\* main, lines 138-148: what the loop does with the outcome of the call
Observe ==
    /\ prog = "enhanced_lidar_network_sniffer"
    /\ pc = "returned"
    /\ attempts' = Append(attempts,
                          [method |-> methods[idx], outcome |-> ret,
                           cond |-> cond, start |-> t0, dur |-> clock - t0,
                           printed |-> printed])
    /\ CASE ret = ReturnsTrue ->
              /\ log' = log \o << <<"SUCCESS", methods[idx]>>,
                                  <<"Total packets found", packet_count>> >>
              /\ pc' = "after"
              /\ UNCHANGED idx
         [] ret = ReturnsFalse ->
              /\ log' = Append(log, <<"No data detected", methods[idx]>>)
              /\ pc' = "loop"
              /\ idx' = idx + 1
         [] ret = RaisesKeyboardInterrupt ->
              /\ log' = Append(log, <<"stopped by user", methods[idx]>>)
              /\ pc' = "after"
              /\ UNCHANGED idx
         [] ret = RaisesException ->
              /\ log' = Append(log, <<"error", methods[idx]>>)
              /\ pc' = "loop"
              /\ idx' = idx + 1
    /\ UNCHANGED <<more, prog, clock, running, packet_count, sock, invoked, t0, ret,
                   cond, printed, skips>>

\* main, lines 150-155: the else branch of the for loop
AllFailed ==
    /\ prog = "enhanced_lidar_network_sniffer"
    /\ pc = "loop"
    /\ idx > Len(methods)
    /\ log' = Append(log, <<"All methods failed", "">>)
    /\ pc' = "after"
    /\ UNCHANGED <<more, prog, clock, running, packet_count, sock, idx, invoked,
                   attempts, t0, ret, cond, printed, skips>>

\* main, line 157
FinalCount ==
    /\ prog = "enhanced_lidar_network_sniffer"
    /\ pc = "after"
    /\ log' = Append(log, <<"Final packet count", packet_count>>)
    /\ pc' = "done"
    /\ UNCHANGED <<more, prog, clock, running, packet_count, sock, idx, invoked,
                   attempts, t0, ret, cond, printed, skips>>

NextSniffer ==
    \/ TryMethod
    \/ Method1Open
    \/ Method1Recv
    \/ Method4Tcpdump
    \/ Method3Open
    \/ Method3Recv
    \/ Method2Sniff
    \/ Observe
    \/ AllFailed
    \/ FinalCount

(***************************************************************************)
(* projects/lidar_testing/real_lidar_access.py                             *)
(***************************************************************************)
\* run_lidar_capture: the ports tried, in order
CapturePorts == << 2368, 2369, 8308 >>

\* lengths of the datagrams the environment may send (recvfrom(1024))
CaptureLengths == {0, 50, 1024}

InitRealLidar ==
    /\ prog = "real_lidar_access"
    /\ CommonInit
    /\ pc = "loop"

\* run_lidar_capture, lines 117-131, with the call of capture_lidar_packet
\* (lines 36-55) it makes for the next port
CaptureLidarPacket ==
    /\ prog = "real_lidar_access"
    /\ pc = "loop"
    /\ idx <= Len(CapturePorts)
    /\ \E env \in {"SocketError", "PortInUse", "Timeout", "Data"} :
       \E d \in Delays(CaptureTimeout) :
       \E n \in CaptureLengths :
       \E valid \in BOOLEAN :
         LET dt == IF env = "Timeout" THEN CaptureTimeout
                   ELSE IF env = "Data" THEN d ELSE 0
             data == IF env = "Data" THEN n ELSE -1
             out == CASE env = "Data" -> << <<"Received", n>> >>
                      [] env = "Timeout" -> << <<"No data received within", CaptureTimeout>> >>
                      [] OTHER -> << <<"Error capturing data", env>> >>
             \* `if data:` is false for None and for an empty datagram
             valid_data == data > 0 /\ valid
         IN
         /\ env # "Data" => (d = 0 /\ n = 0)
         /\ (env # "Data" \/ n < 100) => ~valid
         /\ clock' = clock + dt
         /\ sock' = CASE env = "SocketError" -> sock
                      [] env = "Data" -> "closed"
                      [] OTHER -> "open"
         /\ invoked' = Append(invoked, CapturePorts[idx])
         /\ attempts' = Append(attempts,
                [method |-> "capture_lidar_packet", outcome |-> data,
                 cond |-> env, start |-> clock, dur |-> dt,
                 printed |-> out])
         /\ log' = log \o << <<"Attempting capture on port", CapturePorts[idx]>> >>
                       \o out
                       \o (IF valid_data
                             THEN << <<"Real LiDAR data successfully captured", n>> >>
                             ELSE << >>)
         /\ pc' = IF valid_data THEN "done" ELSE "loop"
         /\ idx' = IF valid_data THEN idx ELSE idx + 1
    /\ UNCHANGED <<more, prog, running, packet_count, t0, ret, cond, printed, skips>>

\* run_lidar_capture, lines 132-134: no port gave valid data
NoValidData ==
    /\ prog = "real_lidar_access"
    /\ pc = "loop"
    /\ idx > Len(CapturePorts)
    /\ log' = Append(log, <<"No valid LiDAR data captured", 0>>)
    /\ pc' = "done"
    /\ UNCHANGED <<more, prog, clock, running, packet_count, sock, idx, invoked,
                   attempts, t0, ret, cond, printed, skips>>

NextRealLidar ==
    \/ CaptureLidarPacket
    \/ NoValidData

(***************************************************************************)
(* go2_slam_bridge/safe_lidar_bridge.py                                    *)
(* The retry loop can run fifteen times: of its attempts the model keeps   *)
(* the number (idx) and the last one finished (attempts), of its output    *)
(* the closing line.                                                       *)
(***************************************************************************)
InitSafeBridge ==
    /\ prog = "safe_lidar_bridge"
    /\ MoreInit
    /\ pc = "while"
    /\ clock = 0
    /\ log = << >>
    /\ running = TRUE
    /\ packet_count = 0
    /\ sock = "unbound"
    /\ idx = 0
    /\ invoked = << >>
    /\ attempts = << >>
    /\ t0 = 0
    /\ ret = "none"
    /\ cond = "none"
    /\ printed = << >>
    /\ skips = 0

\* the loop condition with the deadline test dropped: `while self.running`
SafeWhileNoDeadline ==
    /\ prog = "safe_lidar_bridge"
    /\ pc = "while"
    /\ clock < SafeDeadline + SafeRecvTimeout + SafeSleep
    /\ pc' = "try"
    /\ t0' = clock
    /\ idx' = idx + 1
    /\ UNCHANGED <<more, prog, clock, log, running, packet_count, sock, invoked,
                   attempts, ret, cond, printed, skips>>

\* test_lidar, lines 24 and 45-46: the loop condition, and the return of
\* False when it fails (start_time is clock 0)
SafeWhile ==
    /\ prog = "safe_lidar_bridge"
    /\ pc = "while"
    /\ IF running /\ clock - 0 < SafeDeadline
         THEN /\ pc' = "try"
              /\ t0' = clock
              /\ idx' = idx + 1
              /\ UNCHANGED <<log, ret>>
         ELSE /\ pc' = "done"
              /\ ret' = ReturnsFalse
              /\ log' = Append(log, <<"Test complete after", clock>>)
              /\ UNCHANGED <<t0, idx>>
    /\ UNCHANGED <<more, prog, clock, running, packet_count, sock, invoked,
                   attempts, cond, printed, skips>>

\* test_lidar, lines 25-41: one pass of the try statement
SafeAttempt ==
    /\ prog = "safe_lidar_bridge"
    /\ pc = "try"
    /\ \E env \in {"SocketError", "PortInUse", "Timeout", "Data", "RecvError"} :
       \E d \in Delays(SafeRecvTimeout) :
         LET dt == CASE env = "Timeout" -> SafeRecvTimeout
                     [] env \in {"Data", "RecvError"} -> d
                     [] OTHER -> 0
             \* socket() failed in the first pass: `sock` was never
             \* assigned and sock.close() in finally raises
             unbound == env = "SocketError" /\ sock = "unbound"
             how == CASE env = "Data" -> ReturnsTrue
                      [] unbound -> RaisesException
                      [] OTHER -> "none"
         IN
         /\ env \notin {"Data", "RecvError"} => d = 0
         /\ clock' = clock + dt
         /\ sock' = IF unbound THEN sock ELSE "closed"
         /\ attempts' = << [method |-> "test_lidar", outcome |-> how,
                            cond |-> env, start |-> t0, dur |-> dt,
                            printed |-> << >>] >>
         /\ ret' = how
         /\ pc' = IF how = "none" THEN "sleep" ELSE "done"
         /\ log' = IF env = "Data" THEN Append(log, <<"SUCCESS", 0>>) ELSE log
    /\ UNCHANGED <<more, prog, running, packet_count, idx, invoked, t0, cond,
                   printed, skips>>

\* test_lidar, line 43: time.sleep(2)
SafeSleepStep ==
    /\ prog = "safe_lidar_bridge"
    /\ pc = "sleep"
    /\ clock' = clock + SafeSleep
    /\ pc' = "while"
    /\ UNCHANGED <<more, prog, log, running, packet_count, sock, idx, invoked,
                   attempts, t0, ret, cond, printed, skips>>

\* signal_handler, lines 12-15: SIGINT sets running and raises SystemExit
\* in the main thread, whose finally clause closes the socket on the way
signal_handler ==
    /\ prog = "safe_lidar_bridge"
    /\ pc \in {"while", "try", "sleep"}
    /\ running' = FALSE
    /\ pc' = "exited"
    /\ sock' = IF pc = "try" /\ sock # "unbound" THEN "closed" ELSE sock
    /\ log' = Append(log, <<"Stopping safely", 0>>)
    /\ UNCHANGED <<more, prog, clock, packet_count, idx, invoked, attempts, t0,
                   ret, cond, printed, skips>>

NextSafeBridge ==
    \/ SafeWhile
    \/ SafeAttempt
    \/ SafeSleepStep
    \/ signal_handler

(***************************************************************************)
(* projects/lidar_testing/hesai_xt16_activation.py                         *)
(* Time is not counted in this script.  `log` holds what main prints,      *)
(* `printed` of an attempt what the method called has printed; `invoked`   *)
(* holds the probes of the scan in progress, `sent` the commands of the    *)
(* activation call in progress.                                            *)
(***************************************************************************)
possible_ips == << "192.168.1.201", "192.168.123.201", "192.168.0.201",
                   "10.5.5.200" >>

\* send_activation_commands: the three command byte strings
commands == << <<71, 116, 0, 1, 0, 0, 0, 0>>,
               <<71, 116, 0, 2, 57, 0, 0, 0>>,
               <<71, 116, 0, 3, 0, 0, 0, 0>> >>

\* analyze_hesai_packet: the header patterns
hesai_patterns == { <<238, 255, 85, 170>>, <<255, 238, 170, 85>>,
                    <<85, 170, 255, 238>> }

\* data[:n]
Prefix(data, n) == SubSeq(data, 1, IF Len(data) < n THEN Len(data) ELSE n)

\* a buffer of n bytes: `head`, then zeros
Buffer(head, n) == [i \in 1..n |-> IF i <= Len(head) THEN head[i] ELSE 0]

\* analyze_hesai_packet, lines 137-161
analyze_hesai_packet(data) ==
    IF Len(data) < HesaiMinSize
      THEN FALSE
      ELSE IF \E pattern \in hesai_patterns :
                 Contains(Prefix(data, HesaiHeaderWindow), pattern)
             THEN TRUE
             ELSE IF Len(data) > HesaiSizeLow /\ Len(data) < HesaiSizeHigh
                    THEN TRUE
                    ELSE FALSE

\* the datagrams the environment may send to the data port
Datagrams ==
    { Buffer(<<238, 255, 85, 170>>, 10),
      Buffer(<< >>, 600),
      Buffer(<<0, 0, 255, 238, 170, 85>>, 600),
      Buffer(<< >>, 1400) }

\* what the environment may do to one call of test_udp_data_port, and for
\* a datagram received what the classifier, line 122, says of it
UdpTestInputs ==
    { [env |-> e, matched |-> FALSE] : e \in {"SocketError", "PortInUse", "Timeout"} }
        \cup { [env |-> "Data", matched |-> analyze_hesai_packet(d)] :
                 d \in Datagrams }

\* test_udp_data_port that takes any datagram for LiDAR data
UdpTestResultAnyData(received, matched) ==
    IF received THEN ReturnsTrue ELSE ReturnsFalse

\* test_udp_data_port, lines 118-135: the value the call returns; a datagram
\* the classifier rejects makes the function end without a return statement
UdpTestResult(received, matched) ==
    IF received
      THEN IF matched THEN ReturnsTrue ELSE "None"
      ELSE ReturnsFalse

\* test_udp_data_port that reports a rejected datagram like a silent port
UdpTestPrintedSilent(env, matched) ==
    CASE env = "Data" /\ matched ->
           << "Received", "Confirmed Hesai XT-16 data format" >>
      [] env = "Data" /\ ~matched -> << "No data received (timeout)" >>
      [] env = "Timeout" -> << "No data received (timeout)" >>
      [] OTHER -> << "Error" >>

\* test_udp_data_port, lines 116-134: what the call prints
UdpTestPrinted(env, matched) ==
    CASE env = "Data" /\ matched ->
           << "Received", "Confirmed Hesai XT-16 data format" >>
      [] env = "Data" /\ ~matched ->
           << "Received", "Data format doesn't match Hesai XT-16" >>
      [] env = "Timeout" -> << "No data received (timeout)" >>
      [] OTHER -> << "Error" >>

InitHesai ==
    /\ prog = "hesai_xt16_activation"
    /\ CommonInit
    /\ pc = "check_power_status"

\* check_power_status, lines 56-75, and main, lines 236-242
CheckPower ==
    /\ prog = "hesai_xt16_activation"
    /\ pc = "check_power_status"
    /\ \E power_led \in {"y", "n"} : \E rotating \in {"y", "n"} :
       \E interrupted \in BOOLEAN :
         IF ~interrupted /\ power_led = "y" /\ rotating = "y"
           THEN /\ pc' = "scan_for_lidar"
                /\ UNCHANGED <<log, ret>>
           ELSE /\ pc' = "done"
                /\ ret' = "Resolve power issues"
                /\ log' = Append(log, <<"Resolve power issues before continuing", "">>)
    /\ UNCHANGED <<more, prog, clock, running, packet_count, sock, idx,
                   invoked, attempts, t0, cond, printed, skips>>

\* scan_for_lidar, lines 84-97: one pass of the loop over possible_ips
ScanProbe ==
    /\ prog = "hesai_xt16_activation"
    /\ pc = "scan_for_lidar"
    /\ idx <= Len(possible_ips)
    /\ \E ping \in {"responds to ping", "no ping response", "ping failed"} :
         /\ invoked' = Append(invoked, <<possible_ips[idx], ping>>)
         /\ found_devices' = IF ping = "responds to ping"
                               THEN Append(found_devices, possible_ips[idx])
                               ELSE found_devices
    /\ idx' = idx + 1
    /\ UNCHANGED <<mainpc, th, bound, sent, success, prog, pc, clock, log,
                   running, packet_count, sock, attempts, t0, ret, cond,
                   printed, skips>>

\* scan_for_lidar, lines 99-104: the scan returns found_devices
ScanReturn ==
    /\ prog = "hesai_xt16_activation"
    /\ pc = "scan_for_lidar"
    /\ idx > Len(possible_ips)
    /\ pc' = "scanned"
    /\ UNCHANGED <<more, prog, clock, log, running, packet_count, sock, idx,
                   invoked, attempts, t0, ret, cond, printed, skips>>

\* main, lines 245-254
AfterScan ==
    /\ prog = "hesai_xt16_activation"
    /\ pc = "scanned"
    /\ IF found_devices = << >>
         THEN /\ pc' = "done"
              /\ ret' = "No LiDAR found on network"
              /\ log' = Append(log, <<"No LiDAR found on network", "">>)
         ELSE /\ pc' = "for"
              /\ UNCHANGED <<ret, log>>
    /\ idx' = 1
    /\ invoked' = << >>
    /\ success' = FALSE
    /\ UNCHANGED <<mainpc, th, bound, found_devices, sent, prog, clock,
                   running, packet_count, sock, attempts, t0, cond, printed,
                   skips>>

\* main, lines 255-259: the loop over found_devices takes the next address
\* and calls send_activation_commands
ForDevice ==
    /\ prog = "hesai_xt16_activation"
    /\ pc = "for"
    /\ IF idx <= Len(found_devices)
         THEN /\ pc' = "send_activation_commands"
              /\ log' = Append(log, <<"Testing device at", found_devices[idx]>>)
         ELSE /\ pc' = "summary"
              /\ UNCHANGED log
    /\ sent' = << >>
    /\ UNCHANGED <<mainpc, th, bound, found_devices, success, prog, clock,
                   running, packet_count, sock, idx, invoked, attempts, t0,
                   ret, cond, printed, skips>>

\* send_activation_commands, lines 167-170 (203-205 when socket() fails,
\* and then main, line 259, skips the capture).  From here on `invoked` is
\* the trace of the loop of main: the control sockets made and not made,
\* the commands issued and the captures, each with its endpoint, and a
\* capture also with whether any sendto of the commands before it went
\* through.
ActivationOpen ==
    /\ prog = "hesai_xt16_activation"
    /\ pc = "send_activation_commands"
    /\ \E env \in {"ok", "SocketError"} :
         IF env = "ok"
           THEN /\ sock' = "open"
                /\ pc' = "commands"
                /\ invoked' = Append(invoked, <<"socket", found_devices[idx]>>)
                /\ UNCHANGED idx
           ELSE /\ sock' = sock
                /\ pc' = "for"
                /\ invoked' = Append(invoked,
                                     <<"no socket", found_devices[idx]>>)
                /\ idx' = idx + 1
    /\ UNCHANGED <<more, prog, clock, log, running, packet_count, attempts,
                   t0, ret, cond, printed, skips>>

\* SendCommand without the inner try: a socket error on sendto reaches the
\* outer except, which returns False with the remaining commands unsent
SendCommandAborting ==
    /\ prog = "hesai_xt16_activation"
    /\ pc = "commands"
    /\ Len(sent) < Len(commands)
    /\ \E env \in {"Response", "NoResponse", "SendError"} :
         /\ sent' = Append(sent,
                [ip |-> found_devices[idx], cmd |-> commands[Len(sent) + 1],
                 outcome |-> env, responded |-> env = "Response"])
         /\ pc' = IF env = "SendError" THEN "for" ELSE pc
         /\ idx' = IF env = "SendError" THEN idx + 1 ELSE idx
         /\ invoked' = Append(invoked, <<"command", found_devices[idx]>>)
    /\ UNCHANGED <<mainpc, th, bound, found_devices, success, prog, clock,
                   log, running, packet_count, sock, attempts,
                   t0, ret, cond, printed, skips>>

\* send_activation_commands, lines 182-197: one pass of the loop over the
\* commands: sendto, the wait for a response, the sleep ("SendError" is any
\* socket error of the pass that is no timeout)
SendCommand ==
    /\ prog = "hesai_xt16_activation"
    /\ pc = "commands"
    /\ Len(sent) < Len(commands)
    /\ \E env \in {"Response", "NoResponse", "SendError"} :
         sent' = Append(sent,
                [ip |-> found_devices[idx], cmd |-> commands[Len(sent) + 1],
                 outcome |-> env, responded |-> env = "Response"])
         /\ invoked' = Append(invoked, <<"command", found_devices[idx]>>)
    /\ UNCHANGED <<mainpc, th, bound, found_devices, success, prog, pc, clock,
                   log, running, packet_count, sock, idx, attempts,
                   t0, ret, cond, printed, skips>>

\* send_activation_commands, lines 199-201, and main, lines 259-261
ActivationDone ==
    /\ prog = "hesai_xt16_activation"
    /\ pc = "commands"
    /\ Len(sent) = Len(commands)
    /\ sock' = "closed"
    /\ pc' = "test_udp_data_port"
    /\ log' = Append(log, <<"Waiting 5 seconds for activation", "">>)
    /\ UNCHANGED <<more, prog, clock, running, packet_count, idx, invoked,
                   attempts, t0, ret, cond, printed, skips>>

\* TestUdpDataPort without the break of line 266: the loop goes on to the
\* next endpoint after a success
TestUdpDataPortNoBreak ==
    /\ prog = "hesai_xt16_activation"
    /\ pc = "test_udp_data_port"
    /\ \E in \in UdpTestInputs :
         LET env == in.env
             received == env = "Data"
             matched == received /\ in.matched
             result == UdpTestResult(received, matched)
         IN
         /\ attempts' = Append(attempts,
                [method |-> "test_udp_data_port", ip |-> found_devices[idx],
                 cond |-> env, received |-> received, matched |-> matched,
                 outcome |-> result, start |-> 0, dur |-> 0,
                 printed |-> UdpTestPrinted(env, matched)])
         /\ invoked' = Append(invoked,
                <<"capture", found_devices[idx],
                  IF \A k \in 1..Len(sent) : sent[k].outcome = "SendError"
                    THEN "nothing sent" ELSE "sent">>)
         \* the socket is closed on the rejected path alone
         /\ sock' = CASE env = "SocketError" -> sock
                      [] received /\ ~matched -> "closed"
                      [] OTHER -> "open"
         /\ IF result = ReturnsTrue
              THEN /\ success' = TRUE
                   /\ log' = Append(log, <<"SUCCESS! Hesai XT-16 active at",
                                           found_devices[idx]>>)
                   /\ pc' = "for"
                   /\ idx' = idx + 1
              ELSE /\ log' = Append(log, <<"Commands sent but no data yet",
                                           found_devices[idx]>>)
                   /\ pc' = "for"
                   /\ idx' = idx + 1
                   /\ UNCHANGED success
    /\ sent' = << >>
    /\ UNCHANGED <<mainpc, th, bound, found_devices, prog, clock, running,
                   packet_count, t0, ret, cond, printed, skips>>

\* test_udp_data_port, lines 106-135, and what main, lines 264-269, does
\* with its result
TestUdpDataPort ==
    /\ prog = "hesai_xt16_activation"
    /\ pc = "test_udp_data_port"
    /\ \E in \in UdpTestInputs :
         LET env == in.env
             received == env = "Data"
             matched == received /\ in.matched
             result == UdpTestResult(received, matched)
         IN
         /\ attempts' = Append(attempts,
                [method |-> "test_udp_data_port", ip |-> found_devices[idx],
                 cond |-> env, received |-> received, matched |-> matched,
                 outcome |-> result, start |-> 0, dur |-> 0,
                 printed |-> UdpTestPrinted(env, matched)])
         /\ invoked' = Append(invoked,
                <<"capture", found_devices[idx],
                  IF \A k \in 1..Len(sent) : sent[k].outcome = "SendError"
                    THEN "nothing sent" ELSE "sent">>)
         \* the socket is closed on the rejected path alone
         /\ sock' = CASE env = "SocketError" -> sock
                      [] received /\ ~matched -> "closed"
                      [] OTHER -> "open"
         /\ IF result = ReturnsTrue
              THEN /\ success' = TRUE
                   /\ log' = Append(log, <<"SUCCESS! Hesai XT-16 active at",
                                           found_devices[idx]>>)
                   /\ pc' = "summary"
                   /\ UNCHANGED idx
              ELSE /\ log' = Append(log, <<"Commands sent but no data yet",
                                           found_devices[idx]>>)
                   /\ pc' = "for"
                   /\ idx' = idx + 1
                   /\ UNCHANGED success
    /\ sent' = << >>
    /\ UNCHANGED <<mainpc, th, bound, found_devices, prog, clock, running,
                   packet_count, t0, ret, cond, printed, skips>>

\* main, lines 272-287: the verdict of the run
Summary ==
    /\ prog = "hesai_xt16_activation"
    /\ pc = "summary"
    /\ ret' = IF success THEN "Hesai XT-16 Successfully Activated"
                         ELSE "Hesai XT-16 Activation Failed"
    /\ log' = Append(log, <<ret', "">>)
    /\ pc' = "done"
    /\ UNCHANGED <<more, prog, clock, running, packet_count, sock, idx,
                   invoked, attempts, t0, cond, printed, skips>>

NextHesai ==
    \/ CheckPower
    \/ ScanProbe
    \/ ScanReturn
    \/ AfterScan
    \/ ForDevice
    \/ ActivationOpen
    \/ SendCommand
    \/ ActivationDone
    \/ TestUdpDataPort
    \/ Summary

(***************************************************************************)
(* go2_slam_bridge/lidar_bridge.py                                         *)
(* `pc` is the position of the reader thread, `mainpc` that of the thread  *)
(* that constructs, spins and destroys the node.  packet_count is -1 as    *)
(* long as __init__ has not assigned the attribute.  Of the reader's       *)
(* passes the model keeps the current one: `invoked` the connection modes  *)
(* it tried, `printed` its log lines, `cond` what the socket met last.     *)
(* idx is the number of datagrams with data the reader has received,       *)
(* skips the number of those that were neither counted nor processed, t0   *)
(* the value the reader has read from self.packet_count in a `+= 1` it has *)
(* not yet completed, and `attempts` the status reports, each with the     *)
(* count it logged.                                                        *)
(***************************************************************************)
InitLidarBridge ==
    /\ prog = "lidar_bridge"
    /\ pc = "while"
    /\ mainpc = "__init__"
    /\ clock = 0
    /\ log = << >>
    /\ running = TRUE
    /\ packet_count = -1
    /\ sock = "unbound"
    /\ idx = 0
    /\ invoked = << >>
    /\ attempts = << >>
    /\ t0 = 0
    /\ ret = "none"
    /\ cond = "none"
    /\ printed = << >>
    /\ skips = 0
    /\ th = << >>
    /\ bound = {}
    /\ found_devices = << >>
    /\ sent = << >>
    /\ success = FALSE

\* __init__, lines 43-48: the statistics, set after the thread was started
InitStatistics ==
    /\ prog = "lidar_bridge"
    /\ mainpc = "__init__"
    /\ packet_count' = 0
    /\ mainpc' = "spin"
    /\ UNCHANGED <<th, bound, found_devices, sent, success, prog, pc, clock,
                   log, running, sock, idx, invoked, attempts, t0, ret, cond,
                   printed, skips>>

\* print_status, lines 181-187: the timer callback reads the counter and
\* logs it
print_status ==
    /\ prog = "lidar_bridge"
    /\ mainpc = "spin"
    /\ Len(attempts) < MaxReports
    /\ attempts' = Append(attempts, [method |-> "print_status",
                                     count |-> packet_count])
    /\ mainpc' = "print_status_reset"
    /\ UNCHANGED <<th, bound, found_devices, sent, success, prog, pc, clock,
                   log, running, packet_count, sock, idx, invoked, t0, ret,
                   cond, printed, skips>>

\* print_status, lines 189-191: the counter is set to 0
print_status_reset ==
    /\ prog = "lidar_bridge"
    /\ mainpc = "print_status_reset"
    /\ packet_count' = 0
    /\ mainpc' = "spin"
    /\ UNCHANGED <<th, bound, found_devices, sent, success, prog, pc, clock,
                   log, running, sock, idx, invoked, attempts, t0, ret, cond,
                   printed, skips>>

\* destroy_node, lines 193-198
destroy_node ==
    /\ prog = "lidar_bridge"
    /\ mainpc = "spin"
    /\ running' = FALSE
    /\ mainpc' = "destroyed"
    /\ UNCHANGED <<th, bound, found_devices, sent, success, prog, pc, clock,
                   log, packet_count, sock, idx, invoked, attempts, t0, ret,
                   cond, printed, skips>>

\* read_lidar_data, line 54: the condition of the outer loop
BridgeWhile ==
    /\ prog = "lidar_bridge"
    /\ pc = "while"
    /\ pc' = IF running THEN "try" ELSE "terminated"
    /\ UNCHANGED <<more, prog, clock, log, running, packet_count, sock, idx,
                   invoked, attempts, t0, ret, cond, printed, skips>>

\* BridgeOpen with the bind error handled like a socket error: no second
\* connection mode
BridgeOpenNoFallback ==
    /\ prog = "lidar_bridge"
    /\ pc = "try"
    /\ \E env \in {"ok", "PortInUse"} :
         /\ cond' = env
         /\ invoked' = << "bind" >>
         /\ IF env = "ok"
              THEN /\ sock' = "open"
                   /\ pc' = "recvfrom"
                   /\ printed' = << "Bound to LiDAR port, waiting for data" >>
              ELSE /\ sock' = "open"
                   /\ pc' = "retry"
                   /\ printed' = << "Could not bind to port" >>
    /\ UNCHANGED <<more, prog, clock, log, running, packet_count, idx,
                   attempts, t0, ret, skips>>

\* read_lidar_data, lines 55-66, 87-89 and 110-111: socket, settimeout, bind
BridgeOpen ==
    /\ prog = "lidar_bridge"
    /\ pc = "try"
    /\ \E env \in {"ok", "SocketError", "PortInUse"} :
         /\ cond' = env
         /\ CASE env = "ok" ->
                   /\ sock' = "open"
                   /\ invoked' = << "bind" >>
                   /\ pc' = "recvfrom"
                   /\ printed' = << "Bound to LiDAR port, waiting for data" >>
              [] env = "PortInUse" ->
                   /\ sock' = "open"
                   /\ invoked' = << "bind" >>
                   /\ pc' = "connect"
                   /\ printed' = << "Could not bind to port",
                                    "Trying alternative connection method" >>
              [] env = "SocketError" ->
                   /\ sock' = sock
                   /\ invoked' = << >>
                   /\ pc' = "retry"
                   /\ printed' = << "Socket creation failed" >>
    /\ UNCHANGED <<more, prog, clock, log, running, packet_count, idx,
                   attempts, t0, ret, skips>>

\* read_lidar_data, lines 68-70 and 108: the condition of the inner loop;
\* recvfrom is called when running holds, else the socket is closed.  `ret`
\* keeps whether a receive was ever issued with running already False.
BridgeRecv ==
    /\ prog = "lidar_bridge"
    /\ pc = "recvfrom"
    /\ IF ~running
         THEN /\ sock' = "closed"
              /\ pc' = "retry"
         ELSE /\ sock' = sock
              /\ pc' = "waiting"
    /\ UNCHANGED <<more, prog, clock, log, running, packet_count, idx,
                   invoked, attempts, t0, ret, cond, printed, skips>>

\* read_lidar_data, lines 70-85 and 108: recvfrom returns or raises.  With
\* data, `self.packet_count += 1` first reads the attribute.
BridgeRecvReturn ==
    /\ prog = "lidar_bridge"
    /\ pc = "waiting"
    /\ \E env \in {"Data", "Empty", "Timeout", "RecvError"} :
         /\ cond' = env
         /\ CASE env = "Data" /\ packet_count >= 0 ->
                   /\ idx < MaxPackets
                   /\ idx' = idx + 1
                   /\ t0' = packet_count
                   /\ printed' = printed
                   /\ sock' = sock
                   /\ pc' = "count"
                   /\ UNCHANGED skips
              [] env = "Data" /\ packet_count < 0 ->
                   \* the attribute is not there yet: AttributeError,
                   \* caught by `except Exception`, break
                   /\ idx < MaxPackets
                   /\ idx' = idx + 1
                   /\ skips' = skips + 1
                   /\ printed' = << "Data receive error" >>
                   /\ sock' = "closed"
                   /\ pc' = "retry"
                   /\ UNCHANGED t0
              [] env = "RecvError" ->
                   /\ printed' = << "Data receive error" >>
                   /\ sock' = "closed"
                   /\ pc' = "retry"
                   /\ UNCHANGED <<idx, skips, t0>>
              [] OTHER ->
                   \* a timeout, or an empty datagram: nothing is
                   \* logged, the loop goes on
                   /\ printed' = << >>
                   /\ sock' = sock
                   /\ pc' = "recvfrom"
                   /\ UNCHANGED <<idx, skips, t0>>
    /\ UNCHANGED <<more, prog, clock, log, running, packet_count, invoked,
                   attempts, ret>>

\* read_lidar_data, lines 74-78 and 102-103: `self.packet_count += 1` stores
\* the value it read plus 1, and the packet is processed; in connect mode
\* the socket is then closed (line 108)
BridgeCount ==
    /\ prog = "lidar_bridge"
    /\ pc \in {"count", "connect_count"}
    /\ packet_count' = t0 + 1
    /\ IF pc = "count"
         THEN /\ printed' = << "Received packet" >>
              /\ sock' = sock
              /\ pc' = "recvfrom"
         ELSE /\ printed' = printed
              /\ sock' = "closed"
              /\ pc' = "retry"
    /\ UNCHANGED <<more, prog, clock, log, running, idx, invoked, attempts,
                   t0, ret, cond, skips>>

\* read_lidar_data, lines 91-97 and 105-108: connect and send on the socket
\* whose bind failed, then recv is called; the flag is not looked at
BridgeConnect ==
    /\ prog = "lidar_bridge"
    /\ pc = "connect"
    /\ invoked' = Append(invoked, "connect")
    /\ \E env \in {"ok", "ConnectError"} :
         /\ cond' = env
         /\ IF env = "ok"
              THEN /\ printed' = printed \o << "Connected to LiDAR directly" >>
                   /\ sock' = sock
                   /\ pc' = "connect_wait"
                   /\ ret' = IF running THEN ret
                                        ELSE "receive issued after cancellation"
              ELSE /\ printed' = printed \o << "Direct connection failed" >>
                   /\ sock' = "closed"
                   /\ pc' = "retry"
                   /\ ret' = ret
    /\ UNCHANGED <<more, prog, clock, log, running, packet_count, idx,
                   attempts, t0, skips>>

\* read_lidar_data, lines 98-108: recv of connect-mode returns or raises
BridgeConnectReturn ==
    /\ prog = "lidar_bridge"
    /\ pc = "connect_wait"
    /\ \E env \in {"ConnectTimeout", "Data", "Empty"} :
         /\ cond' = env
         /\ CASE env = "Data" /\ packet_count >= 0 ->
                   /\ idx < MaxPackets
                   /\ idx' = idx + 1
                   /\ t0' = packet_count
                   /\ printed' = printed
                   /\ sock' = sock
                   /\ pc' = "connect_count"
                   /\ UNCHANGED skips
              [] env = "Data" /\ packet_count < 0 ->
                   \* AttributeError on packet_count
                   /\ idx < MaxPackets
                   /\ idx' = idx + 1
                   /\ skips' = skips + 1
                   /\ printed' = printed \o << "Direct connection failed" >>
                   /\ sock' = "closed"
                   /\ pc' = "retry"
                   /\ UNCHANGED t0
              [] env = "Empty" ->
                   /\ printed' = printed
                   /\ sock' = "closed"
                   /\ pc' = "retry"
                   /\ UNCHANGED <<idx, skips, t0>>
              [] OTHER ->
                   \* a timeout
                   /\ printed' = printed \o << "Direct connection failed" >>
                   /\ sock' = "closed"
                   /\ pc' = "retry"
                   /\ UNCHANGED <<idx, skips, t0>>
    /\ UNCHANGED <<more, prog, clock, log, running, packet_count, invoked,
                   attempts, ret>>

\* read_lidar_data, lines 113-116: sleep(5) before the next pass, when
\* running holds
BridgeRetry ==
    /\ prog = "lidar_bridge"
    /\ pc = "retry"
    /\ pc' = IF running THEN "sleeping" ELSE "while"
    /\ UNCHANGED <<more, prog, clock, log, running, packet_count, sock, idx,
                   invoked, attempts, t0, ret, cond, printed, skips>>

\* read_lidar_data, line 116: the sleep is over
BridgeWake ==
    /\ prog = "lidar_bridge"
    /\ pc = "sleeping"
    /\ pc' = "while"
    /\ UNCHANGED <<more, prog, clock, log, running, packet_count, sock, idx,
                   invoked, attempts, t0, ret, cond, printed, skips>>

\* the steps of the reader thread
BridgeReader ==
    \/ BridgeWhile
    \/ BridgeOpen
    \/ BridgeRecv
    \/ BridgeRecvReturn
    \/ BridgeCount
    \/ BridgeConnect
    \/ BridgeConnectReturn
    \/ BridgeRetry
    \/ BridgeWake

NextLidarBridge ==
    \/ InitStatistics
    \/ print_status
    \/ print_status_reset
    \/ destroy_node
    \/ BridgeReader

(***************************************************************************)
(* go2_slam_bridge/multi_ip_listener.py: two threads of one process, each  *)
(* running one bind-listen attempt on the LiDAR port.  The script starts   *)
(* listen_on_ip on its two addresses; the model also lets a thread run the *)
(* other bind-listen attempts of the repository, method1_direct_udp of the *)
(* sniffer and listen_port of test_after_cable_connection.py, and lets     *)
(* both threads name the same address.  `bound` is the kernel's table of   *)
(* the UDP sockets bound to the port, th[t] the thread's position.         *)
(***************************************************************************)
Threads == {1, 2}

\* listen_on_ip, line 15: the packets after which it stops
ListenPackets == 5

\* listen_on_ip, line 11
ListenTimeout == 10

\* listen_port, line 84
ListenPortTimeout == 8

\* what an attempt asks of its socket: the address, SO_REUSEADDR, the timeout
BindListenKinds ==
    { [kind |-> "listen_on_ip", ip |-> "192.168.65.3", reuse |-> FALSE,
       timeout |-> ListenTimeout],
      [kind |-> "listen_on_ip", ip |-> "192.168.65.6", reuse |-> FALSE,
       timeout |-> ListenTimeout],
      [kind |-> "method1_direct_udp", ip |-> "0.0.0.0", reuse |-> TRUE,
       timeout |-> Method1Timeout],
      [kind |-> "listen_port", ip |-> "0.0.0.0", reuse |-> TRUE,
       timeout |-> ListenPortTimeout] }

InitListener ==
    /\ prog = "multi_ip_listener"
    /\ pc = "join"
    /\ clock = 0
    /\ log = << >>
    /\ running = TRUE
    /\ packet_count = 0
    /\ sock = "unbound"
    /\ idx = 1
    /\ invoked = << >>
    /\ attempts = << >>
    /\ t0 = 0
    /\ ret = "none"
    /\ cond = "none"
    /\ printed = << >>
    /\ skips = 0
    /\ mainpc = "none"
    /\ found_devices = << >>
    /\ sent = << >>
    /\ success = FALSE
    /\ bound = {}
    /\ \E k \in [Threads -> BindListenKinds] :
         th = [t \in Threads |->
                 [kind |-> k[t].kind, ip |-> k[t].ip, reuse |-> k[t].reuse,
                  timeout |-> k[t].timeout, pc |-> "start",
                  outcome |-> "none", count |-> 0, overlapped |-> FALSE]]

\* two addresses of one port name the same endpoint when they are equal or
\* one of them is the wildcard
AddrOverlap(a, b) == a = b \/ a = "0.0.0.0" \/ b = "0.0.0.0"

\* the sockets of other threads that are bound to an overlapping address
Overlapping(t) ==
    { b \in bound : b.owner # t /\ AddrOverlap(b.ip, th[t].ip) }

\* bind() of a UDP socket on Linux: EADDRINUSE when an overlapping socket is
\* bound, unless that socket and the new one both set SO_REUSEADDR
BindFails(t) ==
    \E b \in Overlapping(t) : ~(b.reuse /\ th[t].reuse)

\* socket, setsockopt, settimeout and bind of the attempt of thread t, and the
\* handler of the bind error: listen_on_ip lines 9-12 and 27-29,
\* method1_direct_udp lines 21-26 and 35-39, listen_port lines 82-86, 103-105
ListenBind(t) ==
    /\ prog = "multi_ip_listener"
    /\ th[t].pc = "start"
    /\ IF BindFails(t)
         THEN /\ th' = [th EXCEPT ![t].pc = "done",
                                  ![t].outcome = "PortInUse",
                                  ![t].overlapped = TRUE]
              /\ bound' = bound
         ELSE /\ th' = [th EXCEPT ![t].pc = "recvfrom",
                                  ![t].overlapped = (Overlapping(t) # {})]
              /\ bound' = bound \cup
                   {[owner |-> t, ip |-> th[t].ip, reuse |-> th[t].reuse]}
    /\ UNCHANGED <<mainpc, found_devices, sent, success, prog, pc, clock, log,
                   running, packet_count, sock, idx, invoked, attempts, t0,
                   ret, cond, printed, skips>>

\* one recvfrom of thread t and what follows it: listen_on_ip lines 15-25,
\* method1_direct_udp lines 28-39, listen_port lines 88-102.  The socket of a
\* finished attempt leaves the table: closed by the code, or by the
\* interpreter when the function's last reference to it goes.
ListenRecv(t) ==
    /\ prog = "multi_ip_listener"
    /\ th[t].pc = "recvfrom"
    /\ \E env \in {"Data", "Timeout"} :
         LET count == IF env = "Data" THEN th[t].count + 1 ELSE th[t].count
             again == /\ th[t].kind = "listen_on_ip"
                      /\ env = "Data"
                      /\ count < ListenPackets
         IN  /\ th' = [th EXCEPT
                         ![t].count = count,
                         ![t].pc = IF again THEN "recvfrom" ELSE "done",
                         ![t].outcome = IF count > 0 THEN "Data"
                                                     ELSE "Timeout"]
             /\ bound' = IF again THEN bound
                                  ELSE { b \in bound : b.owner # t }
    /\ UNCHANGED <<mainpc, found_devices, sent, success, prog, pc, clock, log,
                   running, packet_count, sock, idx, invoked, attempts, t0,
                   ret, cond, printed, skips>>

\* multi_ip_listener.py, lines 41-44: both threads joined
ListenJoin ==
    /\ prog = "multi_ip_listener"
    /\ pc = "join"
    /\ \A t \in Threads : th[t].pc = "done"
    /\ pc' = "done"
    /\ log' = Append(log, <<"Test complete!", "">>)
    /\ UNCHANGED <<more, prog, clock, running, packet_count, sock, idx,
                   invoked, attempts, t0, ret, cond, printed, skips>>

NextListener ==
    \/ \E t \in Threads : ListenBind(t)
    \/ \E t \in Threads : ListenRecv(t)
    \/ ListenJoin

(***************************************************************************)
(* projects/lidar_testing/quick_hesai_check.py                             *)
(* `cond` is the platform whose ping the script runs, `invoked` the probes *)
(* of the scan (the address and what the host did), found_devices the list *)
(* `found`, `sent` the addresses a start command went to, `sock` the       *)
(* socket of the last operation: "open" once the operation has returned    *)
(* means that it returned without closing it.                              *)
(***************************************************************************)
test_ips == << "192.168.1.201", "192.168.123.201", "192.168.0.201",
               "10.5.5.200" >>

\* line 43: the text that marks a reply
TTLMarker == << "TTL=" >>

\* what subprocess.run of line 41 yields: the standard output of ping, as
\* words, for what the host did and the ping of the platform, or "raises"
\* when the 5 s of line 42 pass or ping cannot be run.  A Windows ping writes
\* "TTL=" in a reply line, the ping of Linux writes "ttl=".
PingResult(host, platform) ==
    CASE host = "reply" /\ platform = "Windows" ->
           << "Reply from", "bytes=32", "time<1ms", "TTL=", "64" >>
      [] host = "reply" /\ platform = "Linux" ->
           << "64 bytes from", "icmp_seq=1", "ttl=", "64", "time=0.5 ms" >>
      [] host = "no reply" /\ platform = "Windows" ->
           << "Request timed out." >>
      [] host = "no reply" /\ platform = "Linux" ->
           << "1 packets transmitted", "0 received" >>
      [] OTHER -> "raises"

ProbeOutcomes == {"reply", "no reply", "probe error", "probe timeout"}

InitQuickCheck ==
    /\ prog = "quick_hesai_check"
    /\ pc = "ping_hesai_addresses"
    /\ MoreInit
    /\ clock = 0
    /\ log = << >>
    /\ running = TRUE
    /\ packet_count = 0
    /\ sock = "unbound"
    /\ idx = 1
    /\ invoked = << >>
    /\ attempts = << >>
    /\ t0 = 0
    /\ ret = "none"
    /\ cond \in {"Windows", "Linux"}
    /\ printed = << >>
    /\ skips = 0

\* ping_hesai_addresses, lines 37-49: one pass of the loop over test_ips
PingProbe ==
    /\ prog = "quick_hesai_check"
    /\ pc = "ping_hesai_addresses"
    /\ idx <= Len(test_ips)
    /\ \E host \in ProbeOutcomes :
         LET result == PingResult(host, cond)
         IN  /\ invoked' = Append(invoked, <<test_ips[idx], host>>)
             /\ found_devices' =
                  IF result # "raises" /\ Contains(result, TTLMarker)
                    THEN Append(found_devices, test_ips[idx])
                    ELSE found_devices
    /\ idx' = idx + 1
    /\ UNCHANGED <<mainpc, th, bound, sent, success, prog, pc, clock, log,
                   running, packet_count, sock, attempts, t0, ret, cond,
                   printed, skips>>

\* ping_hesai_addresses, line 51
PingReturn ==
    /\ prog = "quick_hesai_check"
    /\ pc = "ping_hesai_addresses"
    /\ idx > Len(test_ips)
    /\ pc' = "scanned"
    /\ UNCHANGED <<more, prog, clock, log, running, packet_count, sock, idx,
                   invoked, attempts, t0, ret, cond, printed, skips>>

\* QuickAfterScan without the early return of line 125
QuickAfterScanNoReturn ==
    /\ prog = "quick_hesai_check"
    /\ pc = "scanned"
    /\ pc' = "for"
    /\ UNCHANGED <<ret, log>>
    /\ idx' = 1
    /\ invoked' = << >>
    /\ UNCHANGED <<more, prog, clock, running, packet_count, sock, attempts,
                   t0, cond, printed, skips>>

\* main, lines 114-128
QuickAfterScan ==
    /\ prog = "quick_hesai_check"
    /\ pc = "scanned"
    /\ IF found_devices = << >>
         THEN /\ pc' = "done"
              /\ ret' = "No Hesai devices found on network"
              /\ log' = Append(log, <<"No Hesai devices found on network",
                                      "NEXT STEPS">>)
         ELSE /\ pc' = "for"
              /\ UNCHANGED <<ret, log>>
    /\ idx' = 1
    /\ invoked' = << >>
    /\ UNCHANGED <<more, prog, clock, running, packet_count, sock, attempts,
                   t0, cond, printed, skips>>

\* main, lines 129-133: the loop takes the next address and calls
\* test_udp_data; after the last, line 150
QuickForDevice ==
    /\ prog = "quick_hesai_check"
    /\ pc = "for"
    /\ IF idx <= Len(found_devices)
         THEN /\ pc' = "test_udp_data"
              /\ log' = Append(log, <<"Testing device at", found_devices[idx]>>)
         ELSE /\ pc' = "summary"
              /\ UNCHANGED log
    /\ UNCHANGED <<more, prog, clock, running, packet_count, sock, idx,
                   invoked, attempts, t0, ret, cond, printed, skips>>

\* test_udp_data, lines 53-76, called at line 133 or at line 144, and what
\* main does with its result.  Only the path of a received datagram closes
\* the socket.  From the loop on `invoked` is the trace of the calls main
\* makes: each capture with its endpoint and whether a datagram came, each
\* call of send_activation_command with its endpoint, whether sendto took
\* the command, and what the call returned.
QuickTestUdpData ==
    /\ prog = "quick_hesai_check"
    /\ pc \in {"test_udp_data", "test_again"}
    /\ \E env \in {"SocketError", "PortInUse", "Timeout", "RecvError", "Data"} :
         /\ sock' = CASE env = "SocketError" -> sock
                      [] env = "Data" -> "closed"
                      [] OTHER -> "open"
         /\ ret' = IF env = "Data" THEN ReturnsTrue ELSE ReturnsFalse
         /\ printed' = CASE env = "Data" -> << "RECEIVED" >>
                         [] env = "Timeout" -> << "No data received" >>
                         [] OTHER -> << "Error" >>
         /\ invoked' = Append(invoked,
                <<"test_udp_data", found_devices[idx],
                  IF env = "Data" THEN "data" ELSE "no data">>)
         /\ IF env = "Data"
              THEN /\ success' = TRUE
                   /\ pc' = "for"
                   /\ idx' = idx + 1
              ELSE /\ success' = success
                   /\ IF pc = "test_udp_data"
                        THEN /\ pc' = "send_activation_command"
                             /\ idx' = idx
                        ELSE /\ pc' = "for"
                             /\ idx' = idx + 1
    /\ UNCHANGED <<mainpc, th, bound, found_devices, sent, prog, clock, log,
                   running, packet_count, attempts, t0, cond, skips>>

\* send_activation_command, lines 78-104, and main, lines 139-141
QuickSendActivation ==
    /\ prog = "quick_hesai_check"
    /\ pc = "send_activation_command"
    /\ \E env \in {"SocketError", "SendError", "Response", "NoResponse",
                   "RecvError"} :
         /\ sock' = CASE env = "SocketError" -> sock
                      [] env \in {"Response", "NoResponse"} -> "closed"
                      [] OTHER -> "open"
         /\ sent' = IF env \in {"SocketError", "SendError"}
                      THEN sent
                      ELSE Append(sent, found_devices[idx])
         /\ ret' = IF env \in {"Response", "NoResponse"} THEN ReturnsTrue
                                                         ELSE ReturnsFalse
         /\ printed' = CASE env = "Response" ->
                              << "Start command sent", "Response received" >>
                         [] env = "NoResponse" ->
                              << "Start command sent", "No response (normal)" >>
                         [] env = "RecvError" ->
                              << "Start command sent", "Failed" >>
                         [] OTHER -> << "Failed" >>
         /\ invoked' = Append(invoked,
                <<"send_activation_command", found_devices[idx],
                  IF env \in {"SocketError", "SendError"}
                    THEN "not sent" ELSE "sent",
                  ret'>>)
         /\ IF env \in {"Response", "NoResponse"}
              THEN /\ pc' = "test_again"
                   /\ idx' = idx
              ELSE /\ pc' = "for"
                   /\ idx' = idx + 1
    /\ UNCHANGED <<mainpc, th, bound, found_devices, success, prog, clock,
                   log, running, packet_count, attempts, t0, cond, skips>>

\* main, lines 150-162
QuickSummary ==
    /\ prog = "quick_hesai_check"
    /\ pc = "summary"
    /\ ret' = IF success THEN "HESAI XT-16 IS WORKING"
                         ELSE "No active Hesai XT-16 found"
    /\ log' = Append(log, <<ret', "">>)
    /\ pc' = "done"
    /\ UNCHANGED <<more, prog, clock, running, packet_count, sock, idx,
                   invoked, attempts, t0, cond, printed, skips>>

NextQuickCheck ==
    \/ PingProbe
    \/ PingReturn
    \/ QuickAfterScan
    \/ QuickForDevice
    \/ QuickTestUdpData
    \/ QuickSendActivation
    \/ QuickSummary

(***************************************************************************)
(* projects/lidar_testing/hesai_network_config.py                          *)
(* An address is the pair of its first three octets and its last octet.    *)
(* `printed` is the list of the interfaces ipconfig named, `invoked` the   *)
(* steps of the run in their order: <<"ping", address>> for a probe of the *)
(* direct scan, <<"scan returns", found>> for its end, the name of         *)
(* try_hesai_broadcast_discovery for its call, <<"broadcast", address>>    *)
(* for a discovery packet.  found_devices is found_ip: empty for None.     *)
(***************************************************************************)
\* lines 40-45: the last octets tried in every local network
CandidateOctets == << 201, 200, 199, 100 >>

\* lines 84-89
broadcast_addresses == << "255.255.255.255", "192.168.1.255",
                          "192.168.123.255", "192.168.0.255" >>

\* what line 20 may yield: "raises" where there is no ipconfig, or the IPv4
\* addresses ipconfig names
IpconfigOutcomes ==
    { "raises", << >>, << <<"192.168.123", 18>> >>,
      << <<"127.0.0", 1>>, <<"192.168.1", 50>> >> }

\* lines 29-45: the candidates of the scan, four for every interface that is
\* not the loopback, in the order the loops take them
Candidates(interfaces) ==
    LET ifs == SelectSeq(interfaces, LAMBDA a : a[1] # "127.0.0")
    IN  [k \in 1..(Len(CandidateOctets) * Len(ifs)) |->
           << ifs[((k - 1) \div Len(CandidateOctets)) + 1][1],
              CandidateOctets[((k - 1) % Len(CandidateOctets)) + 1] >>]

\* ping_ip, lines 60-67: subprocess.run is called without text=True, so
\* result.stdout is a bytes object and `"TTL=" in result.stdout` raises
\* TypeError, which the bare except turns into False like every other error
ping_ip(host) ==
    LET stdout == IF host = "probe error" THEN "raises" ELSE "bytes"
        test == IF stdout = "bytes" THEN "TypeError" ELSE "raises"
    IN  IF test \in {"TypeError", "raises"} THEN FALSE ELSE TRUE

InitNetConfig ==
    /\ prog = "hesai_network_config"
    /\ pc = "scan_local_networks"
    /\ MoreInit
    /\ clock = 0
    /\ log = << >>
    /\ running = TRUE
    /\ packet_count = 0
    /\ sock = "unbound"
    /\ idx = 1
    /\ invoked = << >>
    /\ attempts = << >>
    /\ t0 = 0
    /\ ret = "none"
    /\ cond = "none"
    /\ printed = << >>
    /\ skips = 0

\* scan_local_networks, lines 19-31 and 55-58
NetIpconfig ==
    /\ prog = "hesai_network_config"
    /\ pc = "scan_local_networks"
    /\ \E out \in IpconfigOutcomes :
         IF out = "raises"
           THEN /\ pc' = "scanned"
                /\ invoked' = Append(invoked, <<"scan returns", found_devices>>)
                /\ log' = Append(log, <<"Network scan failed", "">>)
                /\ UNCHANGED printed
           ELSE /\ pc' = "ping_ip"
                /\ printed' = out
                /\ UNCHANGED <<invoked, log>>
    /\ idx' = 1
    /\ UNCHANGED <<more, prog, clock, running, packet_count, sock, attempts,
                   t0, ret, cond, skips>>

\* scan_local_networks, lines 47-50: one candidate is pinged; the step is
\* recorded with what the candidate did
NetPingProbe ==
    /\ prog = "hesai_network_config"
    /\ pc = "ping_ip"
    /\ idx <= Len(Candidates(printed))
    /\ \E host \in {"reply", "no reply", "probe error"} :
         LET test_ip == Candidates(printed)[idx]
         IN  IF ping_ip(host)
               THEN /\ found_devices' = << test_ip >>
                    /\ invoked' = invoked \o << <<"ping", test_ip, host>>,
                                     <<"scan returns", << test_ip >> >> >>
                    /\ pc' = "scanned"
                    /\ idx' = idx
               ELSE /\ found_devices' = found_devices
                    /\ invoked' = Append(invoked, <<"ping", test_ip, host>>)
                    /\ pc' = pc
                    /\ idx' = idx + 1
    /\ UNCHANGED <<mainpc, th, bound, sent, success, prog, clock, log,
                   running, packet_count, sock, attempts, t0, ret, cond,
                   printed, skips>>

\* scan_local_networks, line 58: no candidate answered
NetScanReturn ==
    /\ prog = "hesai_network_config"
    /\ pc = "ping_ip"
    /\ idx > Len(Candidates(printed))
    /\ pc' = "scanned"
    /\ invoked' = Append(invoked, <<"scan returns", found_devices>>)
    /\ UNCHANGED <<more, prog, clock, log, running, packet_count, sock, idx,
                   attempts, t0, ret, cond, printed, skips>>

\* NetAfterScan that goes on to the configuration step without discovery
NetAfterScanNoBroadcast ==
    /\ prog = "hesai_network_config"
    /\ pc = "scanned"
    /\ pc' = "step3"
    /\ log' = log
    /\ idx' = 1
    /\ UNCHANGED <<more, prog, clock, running, packet_count, sock, invoked,
                   attempts, t0, ret, cond, printed, skips>>

\* main, lines 163-176
NetAfterScan ==
    /\ prog = "hesai_network_config"
    /\ pc = "scanned"
    /\ IF found_devices # << >>
         THEN /\ pc' = "step3"
              /\ log' = Append(log, <<"Found potential Hesai device at",
                                      found_devices[1]>>)
              /\ UNCHANGED invoked
         ELSE /\ pc' = "try_hesai_broadcast_discovery"
              /\ log' = Append(log, <<"No devices found on local networks", "">>)
              /\ invoked' = Append(invoked,
                                   <<"try_hesai_broadcast_discovery", "">>)
    /\ idx' = 1
    /\ UNCHANGED <<more, prog, clock, running, packet_count, sock, attempts,
                   t0, ret, cond, printed, skips>>

\* try_hesai_broadcast_discovery, lines 74-78 and 110-113
NetBroadcastOpen ==
    /\ prog = "hesai_network_config"
    /\ pc = "try_hesai_broadcast_discovery"
    /\ \E env \in {"ok", "SocketError"} :
         /\ cond' = env
         /\ IF env = "ok"
              THEN /\ sock' = "open"
                   /\ pc' = "broadcast"
                   /\ UNCHANGED log
              ELSE /\ sock' = sock
                   /\ pc' = "discovered"
                   /\ log' = Append(log, <<"Broadcast discovery failed", "">>)
    /\ UNCHANGED <<more, prog, clock, running, packet_count, idx, invoked,
                   attempts, t0, ret, printed, skips>>

\* NetBroadcast that returns the address of a reply with the socket open
NetBroadcastNoCloseOnReply ==
    /\ prog = "hesai_network_config"
    /\ pc = "broadcast"
    /\ IF idx <= Len(broadcast_addresses)
         THEN \E env \in {"SendError", "Timeout", "Response", "RecvError"} :
                /\ cond' = env
                /\ invoked' = Append(invoked,
                                     <<"broadcast", broadcast_addresses[idx]>>)
                /\ attempts' = Append(attempts,
                       [method |-> "try_hesai_broadcast_discovery",
                        addr |-> broadcast_addresses[idx],
                        sent |-> env # "SendError",
                        cond |-> env])
                /\ IF env = "Response"
                     THEN \E server \in { <<"192.168.1", 201>>,
                                          <<"192.168.123", 201>> } :
                            /\ found_devices' = << server >>
                            /\ sock' = sock
                            /\ pc' = "discovered"
                            /\ idx' = idx
                     ELSE /\ found_devices' = found_devices
                          /\ sock' = sock
                          /\ pc' = pc
                          /\ idx' = idx + 1
         ELSE /\ sock' = "closed"
              /\ pc' = "discovered"
              /\ UNCHANGED <<cond, invoked, found_devices, idx, attempts>>
    /\ UNCHANGED <<mainpc, th, bound, sent, success, prog, clock, log,
                   running, packet_count, t0, ret, printed, skips>>

\* try_hesai_broadcast_discovery, lines 91-108: one address of the loop, and
\* after the last the close and the return of None.  attempts has a record
\* for every address of the loop so far: whether sendto sent the datagram,
\* and what followed.
NetBroadcast ==
    /\ prog = "hesai_network_config"
    /\ pc = "broadcast"
    /\ IF idx <= Len(broadcast_addresses)
         THEN \E env \in {"SendError", "Timeout", "Response", "RecvError"} :
                /\ cond' = env
                /\ invoked' = Append(invoked,
                                     <<"broadcast", broadcast_addresses[idx]>>)
                /\ attempts' = Append(attempts,
                       [method |-> "try_hesai_broadcast_discovery",
                        addr |-> broadcast_addresses[idx],
                        sent |-> env # "SendError",
                        cond |-> env])
                /\ IF env = "Response"
                     THEN \E server \in { <<"192.168.1", 201>>,
                                          <<"192.168.123", 201>> } :
                            /\ found_devices' = << server >>
                            /\ sock' = "closed"
                            /\ pc' = "discovered"
                            /\ idx' = idx
                     ELSE /\ found_devices' = found_devices
                          /\ sock' = sock
                          /\ pc' = pc
                          /\ idx' = idx + 1
         ELSE /\ sock' = "closed"
              /\ pc' = "discovered"
              /\ UNCHANGED <<cond, invoked, found_devices, idx, attempts>>
    /\ UNCHANGED <<mainpc, th, bound, sent, success, prog, clock, log,
                   running, packet_count, t0, ret, printed, skips>>

\* main, lines 178-181
NetAfterBroadcast ==
    /\ prog = "hesai_network_config"
    /\ pc = "discovered"
    /\ pc' = "step3"
    /\ log' = Append(log, IF found_devices # << >>
                            THEN <<"Found Hesai via broadcast", found_devices[1]>>
                            ELSE <<"No Hesai devices found via broadcast", "">>)
    /\ UNCHANGED <<more, prog, clock, running, packet_count, sock, idx,
                   invoked, attempts, t0, ret, cond, printed, skips>>

\* main, lines 184-196, with configure_hesai_ip, lines 115-156: the new
\* address is pinged with ping_ip, and the socket is closed where line 151
\* is reached
NetConfigure ==
    /\ prog = "hesai_network_config"
    /\ pc = "step3"
    /\ IF found_devices # << >> /\ found_devices[1][1] # "192.168.123"
         THEN \E env \in {"SocketError", "SendError", "Timeout", "Response",
                          "RecvError"} :
              \E host \in {"reply", "no reply", "probe error"} :
                LET new_ip == IF env = "Response" /\ ping_ip(host)
                                THEN << <<"192.168.123", 201>> >>
                                ELSE << >>
                IN  /\ cond' = env
                    /\ sent' = IF env \in {"SocketError", "SendError"}
                                 THEN sent
                                 ELSE Append(sent, found_devices[1])
                    /\ sock' = CASE env = "SocketError" -> sock
                                 [] env \in {"SendError", "RecvError"} -> "open"
                                 [] new_ip # << >> -> "open"
                                 [] OTHER -> "closed"
                    /\ found_devices' = IF new_ip # << >> THEN new_ip
                                                          ELSE found_devices
         ELSE UNCHANGED <<cond, sent, sock, found_devices>>
    /\ pc' = "final"
    /\ UNCHANGED <<mainpc, th, bound, success, prog, clock, log, running,
                   packet_count, idx, invoked, attempts, t0, ret, printed,
                   skips>>

\* main, lines 199-212
NetFinal ==
    /\ prog = "hesai_network_config"
    /\ pc = "final"
    /\ ret' = IF found_devices # << >> THEN "HESAI XT-16 READY"
                                       ELSE "HESAI XT-16 NOT FOUND"
    /\ log' = Append(log, <<ret', "">>)
    /\ pc' = "done"
    /\ UNCHANGED <<more, prog, clock, running, packet_count, sock, idx,
                   invoked, attempts, t0, cond, printed, skips>>

NextNetConfig ==
    \/ NetIpconfig
    \/ NetPingProbe
    \/ NetScanReturn
    \/ NetAfterScan
    \/ NetBroadcastOpen
    \/ NetBroadcast
    \/ NetAfterBroadcast
    \/ NetConfigure
    \/ NetFinal

(***************************************************************************)
(* The two packet classifiers: analyze_lidar_packet of go2w_lidar_access   *)
(* and analyze_hesai_packet of hesai_xt16_activation, applied to the same  *)
(* buffer.  `sent` holds the buffer fed to them, as its leading bytes, its *)
(* length and the byte that fills the rest; `attempts` what each           *)
(* classifier returned and the rule that decided.                          *)
(***************************************************************************)
\* analyze_lidar_packet, line 115
LidarMinSize == 16

\* analyze_lidar_packet, line 119
LidarHeaderWindow == 8

\* analyze_lidar_packet, line 133
LidarTypicalSize == 1200

\* analyze_lidar_packet, lines 122-126
hesai_headers == { <<238, 255>>, <<255, 238>>, <<170, 85>> }

\* a buffer of n bytes: `head` (cut at n), then the byte `fill`
Filled(head, n, fill) ==
    [i \in 1..n |-> IF i <= Len(head) THEN head[i] ELSE fill]

\* analyze_lidar_rule without the search for a header pattern
analyze_lidar_rule_size_only(data) ==
    IF Len(data) < LidarMinSize
      THEN "TooShort"
      ELSE IF Len(data) >= LidarTypicalSize THEN "Size" ELSE "NoMatch"

\* analyze_lidar_rule that looks for a header pattern in the whole buffer
analyze_lidar_rule_whole_buffer(data) ==
    IF Len(data) < LidarMinSize
      THEN "TooShort"
      ELSE IF \E pattern \in hesai_headers : Contains(data, pattern)
             THEN "Signature"
             ELSE IF Len(data) >= LidarTypicalSize THEN "Size" ELSE "NoMatch"

\* analyze_lidar_packet, lines 111-139: the statement that returns
analyze_lidar_rule(data) ==
    IF Len(data) < LidarMinSize
      THEN "TooShort"
      ELSE IF \E pattern \in hesai_headers :
                 Contains(Prefix(data, LidarHeaderWindow), pattern)
             THEN "Signature"
             ELSE IF Len(data) >= LidarTypicalSize THEN "Size" ELSE "NoMatch"

\* analyze_lidar_packet, lines 111-139: the value returned
analyze_lidar_packet(data) ==
    analyze_lidar_rule(data) \in {"Signature", "Size"}

\* analyze_hesai_rule with the header test before the length test
analyze_hesai_rule_header_first(data) ==
    IF \E pattern \in hesai_patterns :
          Contains(Prefix(data, HesaiHeaderWindow), pattern)
      THEN "Signature"
      ELSE IF Len(data) < HesaiMinSize
             THEN "TooShort"
             ELSE IF Len(data) > HesaiSizeLow /\ Len(data) < HesaiSizeHigh
                    THEN "Size"
                    ELSE "NoMatch"

\* analyze_hesai_packet, lines 137-161: the statement that returns
analyze_hesai_rule(data) ==
    IF Len(data) < HesaiMinSize
      THEN "TooShort"
      ELSE IF \E pattern \in hesai_patterns :
                 Contains(Prefix(data, HesaiHeaderWindow), pattern)
             THEN "Signature"
             ELSE IF Len(data) > HesaiSizeLow /\ Len(data) < HesaiSizeHigh
                    THEN "Size"
                    ELSE "NoMatch"

\* n zero bytes, then the bytes of tail
ZerosThen(n, tail) == [i \in 1..n |-> 0] \o tail

\* the leading bytes of the buffers fed to the classifiers: nothing, every
\* pattern of either classifier, two bytes of a pattern before other bytes,
\* and a pattern that ends at, lies across and begins after the end of the
\* window of either classifier
BufferHeads ==
    {<< >>, <<238, 255, 0, 0>>, <<0, 170, 85>>} \cup hesai_headers
        \cup hesai_patterns
        \cup { ZerosThen(n, <<238, 255>>) :
                  n \in {LidarHeaderWindow - 2, LidarHeaderWindow - 1,
                         LidarHeaderWindow} }
        \cup { ZerosThen(n, <<238, 255, 85, 170>>) :
                  n \in {HesaiHeaderWindow - 4, HesaiHeaderWindow - 2,
                         HesaiHeaderWindow} }

\* the bytes that fill the rest of a buffer
FillBytes == {0, 85, 255}

\* the lengths of the buffers, around every length the classifiers test
BufferLengths ==
    {0, 2, 4, 10, 15, 16, 20, 511, 512, 600, 1000, 1001, 1199, 1200, 1400, 1999,
     2000}

InitClassifier ==
    /\ prog = "classifier"
    /\ pc = "classify"
    /\ mainpc = "none"
    /\ th = << >>
    /\ bound = {}
    /\ found_devices = << >>
    /\ success = FALSE
    /\ clock = 0
    /\ log = << >>
    /\ running = TRUE
    /\ packet_count = 0
    /\ sock = "unbound"
    /\ idx = 1
    /\ invoked = << >>
    /\ attempts = << >>
    /\ t0 = 0
    /\ ret = "none"
    /\ cond = "none"
    /\ printed = << >>
    /\ skips = 0
    /\ \E head \in BufferHeads : \E n \in BufferLengths : \E fill \in FillBytes :
         /\ n >= Len(head)
         /\ sent = << [head |-> head, len |-> n, fill |-> fill] >>

\* go2w_lidar_access.py, line 101: the buffer is given to analyze_lidar_packet
AnalyzeLidarPacket ==
    /\ prog = "classifier"
    /\ pc = "classify"
    /\ \A k \in 1..Len(attempts) : attempts[k].method # "analyze_lidar_packet"
    /\ LET data == Filled(sent[1].head, sent[1].len, sent[1].fill)
       IN  attempts' = Append(attempts,
             [method |-> "analyze_lidar_packet",
              outcome |-> analyze_lidar_packet(data),
              rule |-> analyze_lidar_rule(data)])
    /\ UNCHANGED <<more, prog, pc, clock, log, running, packet_count, sock,
                   idx, invoked, t0, ret, cond, printed, skips>>

\* hesai_xt16_activation.py, line 122: the buffer is given to
\* analyze_hesai_packet
AnalyzeHesaiPacket ==
    /\ prog = "classifier"
    /\ pc = "classify"
    /\ \A k \in 1..Len(attempts) : attempts[k].method # "analyze_hesai_packet"
    /\ LET data == Filled(sent[1].head, sent[1].len, sent[1].fill)
       IN  attempts' = Append(attempts,
             [method |-> "analyze_hesai_packet",
              outcome |-> analyze_hesai_packet(data),
              rule |-> analyze_hesai_rule(data)])
    /\ UNCHANGED <<more, prog, pc, clock, log, running, packet_count, sock,
                   idx, invoked, t0, ret, cond, printed, skips>>

NextClassifier ==
    \/ AnalyzeLidarPacket
    \/ AnalyzeHesaiPacket

(***************************************************************************)
(* projects/lidar_testing/check_lidar_hardware.py: test_after_activation   *)
(* as main calls it.  `attempts` has one record for every port tried:      *)
(* whether a socket was opened for it and whether the code closed it.      *)
(***************************************************************************)
\* line 147
lidar_ports == << 2368, 2369, 8308 >>

InitHardwareCheck ==
    /\ prog = "check_lidar_hardware"
    /\ pc = "test_after_activation"
    /\ CommonInit

\* test_after_activation, lines 148-164: one port of the loop
TestPortAfterActivation ==
    /\ prog = "check_lidar_hardware"
    /\ pc = "test_after_activation"
    /\ idx <= Len(lidar_ports)
    /\ \E env \in {"SocketError", "PortInUse", "Timeout", "RecvError", "Data"} :
         LET opened == env # "SocketError"
             closed == env \in {"Timeout", "Data"}
         IN  /\ attempts' = Append(attempts,
                   [method |-> "test_after_activation",
                    port |-> lidar_ports[idx], cond |-> env,
                    outcome |-> IF env = "Data" THEN ReturnsTrue ELSE "none",
                    opened |-> opened, closed |-> closed])
             /\ sock' = CASE ~opened -> sock
                          [] closed -> "closed"
                          [] OTHER -> "open"
             /\ IF env = "Data"
                  THEN /\ pc' = "returned"
                       /\ ret' = ReturnsTrue
                       /\ idx' = idx
                  ELSE /\ pc' = pc
                       /\ ret' = ret
                       /\ idx' = idx + 1
    /\ UNCHANGED <<more, prog, clock, log, running, packet_count, invoked,
                   t0, cond, printed, skips>>

\* test_after_activation, line 166
TestAfterActivationReturn ==
    /\ prog = "check_lidar_hardware"
    /\ pc = "test_after_activation"
    /\ idx > Len(lidar_ports)
    /\ pc' = "returned"
    /\ ret' = ReturnsFalse
    /\ UNCHANGED <<more, prog, clock, log, running, packet_count, sock, idx,
                   invoked, attempts, t0, cond, printed, skips>>

\* main, lines 212-231
HardwareCheckSummary ==
    /\ prog = "check_lidar_hardware"
    /\ pc = "returned"
    /\ log' = log \o << <<IF ret = ReturnsTrue
                            THEN "SUCCESS! LiDAR data detected"
                            ELSE "Still no LiDAR data", "">>,
                        <<"Hardware Diagnostic Complete", "">> >>
    /\ pc' = "done"
    /\ UNCHANGED <<more, prog, clock, running, packet_count, sock, idx,
                   invoked, attempts, t0, ret, cond, printed, skips>>

NextHardwareCheck ==
    \/ TestPortAfterActivation
    \/ TestAfterActivationReturn
    \/ HardwareCheckSummary

(***************************************************************************)
(* projects/lidar_testing/test_after_cable_connection.py:                  *)
(* test_udp_ports_improved.  th[i] is the thread that runs listen_port for *)
(* ports[i], `attempts` the writes to the dictionary `results` in their    *)
(* order, each with its key and the port of the thread that wrote it.      *)
(* mainpc is the position of the function, idx                             *)
(* the thread it starts or joins.  Time passes, one second at a time,      *)
(* while every thread that runs is waiting in recvfrom and the function is *)
(* waiting in join; t0 is when the current join began.                     *)
(***************************************************************************)
\* line 107
ports == << 2368, 2369, 8308, 8080 >>

\* line 119
JoinTimeout == 10

InitPorts ==
    /\ prog = "test_after_cable_connection"
    /\ pc = "none"
    /\ mainpc = "start"
    /\ th = [i \in 1..Len(ports) |-> [pc |-> "unstarted", deadline |-> 0]]
    /\ attempts = << >>
    /\ bound = {}
    /\ found_devices = << >>
    /\ sent = << >>
    /\ success = FALSE
    /\ clock = 0
    /\ log = << >>
    /\ running = TRUE
    /\ packet_count = 0
    /\ sock = "unbound"
    /\ idx = 1
    /\ invoked = << >>
    /\ t0 = 0
    /\ ret = "none"
    /\ cond = "none"
    /\ printed = << >>
    /\ skips = 0

\* line 108: the values written to results under the key p, in their order
ResultsOf(p) == SelectSeq(attempts, LAMBDA a : a.port = p)

\* lines 111-115: the next thread is started; after the last, line 118
PortsStartThread ==
    /\ prog = "test_after_cable_connection"
    /\ mainpc = "start"
    /\ IF idx <= Len(ports)
         THEN /\ th' = [th EXCEPT ![idx].pc = "start"]
              /\ idx' = idx + 1
              /\ UNCHANGED <<mainpc, t0>>
         ELSE /\ mainpc' = "join"
              /\ idx' = 1
              /\ t0' = clock
              /\ UNCHANGED th
    /\ UNCHANGED <<bound, found_devices, sent, success, prog, pc, clock, log,
                   running, packet_count, sock, invoked, attempts, ret, cond,
                   printed, skips>>

\* listen_port, lines 81-86 and 103-105: socket, setsockopt, settimeout and
\* bind; an error is written to results and ends the thread
ListenPortBind(i) ==
    /\ prog = "test_after_cable_connection"
    /\ th[i].pc = "start"
    /\ \E env \in {"ok", "PortInUse"} :
         IF env = "ok"
           THEN /\ th' = [th EXCEPT ![i].pc = "recvfrom",
                                    ![i].deadline = clock + ListenPortTimeout]
                /\ UNCHANGED attempts
           ELSE /\ th' = [th EXCEPT ![i].pc = "done"]
                /\ attempts' = Append(attempts,
                      [method |-> "listen_port", port |-> ports[i],
                       by |-> ports[i], success |-> FALSE, error |-> env])
    /\ UNCHANGED <<mainpc, bound, found_devices, sent, success, prog, pc,
                   clock, log, running, packet_count, sock, idx, invoked, t0,
                   ret, cond, printed, skips>>

\* listen_port, lines 88-102: recvfrom returns a datagram, or the 8 s pass
ListenPortRecv(i) ==
    /\ prog = "test_after_cable_connection"
    /\ th[i].pc = "recvfrom"
    /\ \E env \in {"Data", "Timeout"} :
         /\ env = "Timeout" => clock = th[i].deadline
         /\ env = "Data" => clock < th[i].deadline
         /\ attempts' = Append(attempts,
               [method |-> "listen_port", port |-> ports[i],
                by |-> ports[i], success |-> (env = "Data"),
                error |-> "None"])
    /\ th' = [th EXCEPT ![i].pc = "done"]
    /\ UNCHANGED <<mainpc, bound, found_devices, sent, success, prog, pc,
                   clock, log, running, packet_count, sock, idx, invoked, t0,
                   ret, cond, printed, skips>>

\* a second passes: no thread is at a step that takes no time, none has
\* reached its timeout, and the function waits in a join that is not over
PortsTick ==
    /\ prog = "test_after_cable_connection"
    /\ mainpc = "join"
    /\ idx <= Len(ports)
    /\ th[idx].pc # "done"
    /\ clock < t0 + JoinTimeout
    /\ \A i \in 1..Len(ports) :
          /\ th[i].pc \in {"recvfrom", "done"}
          /\ th[i].pc = "recvfrom" => clock < th[i].deadline
    /\ clock' = clock + 1
    /\ UNCHANGED <<more, prog, pc, log, running, packet_count, sock, idx,
                   invoked, attempts, t0, ret, cond, printed, skips>>

\* PortsJoin with a join that does not wait for the thread
PortsJoinNoWait ==
    /\ prog = "test_after_cable_connection"
    /\ mainpc = "join"
    /\ IF idx <= Len(ports)
         THEN /\ idx' = idx + 1
              /\ t0' = clock
              /\ UNCHANGED <<mainpc, printed, success>>
         ELSE /\ mainpc' = "summary"
              /\ printed' = << { attempts[k].port : k \in 1..Len(attempts) } >>
              /\ success' = \E k \in 1..Len(attempts) :
                               /\ attempts[k].success
                               /\ \A j \in (k + 1)..Len(attempts) :
                                     attempts[j].port # attempts[k].port
              /\ UNCHANGED <<idx, t0>>
    /\ UNCHANGED <<th, bound, found_devices, sent, prog, pc, clock, log,
                   running, packet_count, sock, invoked, attempts, ret, cond,
                   skips>>

\* lines 118-122: thread.join(timeout=10) returns when the thread has ended
\* or the 10 s have passed; after the last join the summary reads results
PortsJoin ==
    /\ prog = "test_after_cable_connection"
    /\ mainpc = "join"
    /\ IF idx <= Len(ports)
         THEN /\ th[idx].pc = "done" \/ clock = t0 + JoinTimeout
              /\ idx' = idx + 1
              /\ t0' = clock
              /\ UNCHANGED <<mainpc, printed, success>>
         ELSE /\ mainpc' = "summary"
              /\ printed' = << { attempts[k].port : k \in 1..Len(attempts) } >>
              /\ success' = \E k \in 1..Len(attempts) :
                               /\ attempts[k].success
                               /\ \A j \in (k + 1)..Len(attempts) :
                                     attempts[j].port # attempts[k].port
              /\ UNCHANGED <<idx, t0>>
    /\ UNCHANGED <<th, bound, found_devices, sent, prog, pc, clock, log,
                   running, packet_count, sock, invoked, attempts, ret, cond,
                   skips>>

\* lines 124-129
PortsSummary ==
    /\ prog = "test_after_cable_connection"
    /\ mainpc = "summary"
    /\ mainpc' = "done"
    /\ ret' = IF success THEN ReturnsTrue ELSE ReturnsFalse
    /\ log' = Append(log, <<IF success
                              THEN "SUCCESS! LiDAR data found on ports"
                              ELSE "No LiDAR data on any tested ports", "">>)
    /\ UNCHANGED <<th, bound, found_devices, sent, success, prog, pc, clock,
                   running, packet_count, sock, idx, invoked, attempts, t0,
                   cond, printed, skips>>

NextPorts ==
    \/ PortsStartThread
    \/ \E i \in 1..Len(ports) : ListenPortBind(i)
    \/ \E i \in 1..Len(ports) : ListenPortRecv(i)
    \/ PortsTick
    \/ PortsJoin
    \/ PortsSummary

(***************************************************************************)
(* go2_slam_bridge/hesai_udp_bridge.py                                     *)
(* `running` is the flag self.receiving, `pc` the position of the receive  *)
(* thread, `mainpc` that of the thread that spins and destroys the node.   *)
(* `sock` is self.sock as setup_udp_socket left it: "open" when bound with *)
(* its 1 s timeout, "untimed" when bind raised (the socket exists, is not  *)
(* bound and has no timeout, line 44 was not reached), "unbound" when      *)
(* socket() raised and the attribute does not exist.  packet_count is the  *)
(* local counter of receive_lidar_data.                                    *)
(***************************************************************************)
InitHesaiUdpBridge ==
    /\ prog = "hesai_udp_bridge"
    /\ pc = "while"
    /\ mainpc = "spin"
    /\ th = << >>
    /\ bound = {}
    /\ found_devices = << >>
    /\ sent = << >>
    /\ success = FALSE
    /\ clock = 0
    /\ log = << >>
    /\ running = TRUE
    /\ packet_count = 0
    /\ sock \in {"open", "untimed", "unbound"}
    /\ idx = 0
    /\ invoked = << >>
    /\ attempts = << >>
    /\ t0 = 0
    /\ ret = "none"
    /\ cond = "none"
    /\ printed = << >>
    /\ skips = 0

\* destroy_node, lines 102-107: the flag is cleared and the socket, when the
\* attribute exists, is closed under the receive thread
UdpDestroyNode ==
    /\ prog = "hesai_udp_bridge"
    /\ mainpc = "spin"
    /\ running' = FALSE
    /\ sock' = IF sock = "unbound" THEN sock ELSE "closed"
    /\ mainpc' = "destroyed"
    /\ UNCHANGED <<th, bound, found_devices, sent, success, prog, pc, clock,
                   log, packet_count, idx, invoked, attempts, t0, ret, cond,
                   printed, skips>>

\* receive_lidar_data, lines 53-56: the loop condition, then recvfrom is
\* called; on a socket without timeout the call blocks
UdpWhile ==
    /\ prog = "hesai_udp_bridge"
    /\ pc = "while"
    /\ pc' = CASE ~running -> "terminated"
               [] sock = "untimed" -> "blocked"
               [] OTHER -> "recvfrom"
    /\ UNCHANGED <<more, prog, clock, log, running, packet_count, sock, idx,
                   invoked, attempts, t0, ret, cond, printed, skips>>

\* receive_lidar_data, lines 56-70: recvfrom returns or raises.  Without the
\* attribute it raises AttributeError; on a socket that destroy_node closed
\* meanwhile it raises OSError or times out; on the bound socket it returns
\* a datagram or times out after 1 s.  The blocked call on the socket that
\* was never bound and has no timeout does not return: nothing is sent to
\* it, and closing it from the other thread does not wake it.
UdpRecvReturn ==
    /\ prog = "hesai_udp_bridge"
    /\ pc = "recvfrom"
    /\ \E env \in {"Data", "Timeout", "Error"} :
         /\ env = "Data" => sock = "open" /\ packet_count < MaxPackets
         /\ env = "Timeout" => sock \in {"open", "closed"}
         /\ env = "Error" => sock \in {"unbound", "closed"}
         /\ cond' = env
         /\ packet_count' = IF env = "Data" THEN packet_count + 1
                                            ELSE packet_count
         /\ pc' = IF env = "Error" THEN "sleeping" ELSE "while"
         /\ printed' = IF env = "Error" THEN << "Error receiving data" >>
                                        ELSE << >>
    /\ UNCHANGED <<more, prog, clock, log, running, sock, idx, invoked,
                   attempts, t0, ret, skips>>

\* receive_lidar_data, line 70: the sleep after an error is over
UdpSleepDone ==
    /\ prog = "hesai_udp_bridge"
    /\ pc = "sleeping"
    /\ pc' = "while"
    /\ UNCHANGED <<more, prog, clock, log, running, packet_count, sock, idx,
                   invoked, attempts, t0, ret, cond, printed, skips>>

\* the steps of the receive thread
UdpReader ==
    \/ UdpWhile
    \/ UdpRecvReturn
    \/ UdpSleepDone

NextHesaiUdpBridge ==
    \/ UdpDestroyNode
    \/ UdpReader

\* ---------------------------------------------------------------------------
\* expansion_dock_lidar_listener.py and simple_lidar_test.py: two scripts that
\* run at module level.  bound is the set of names the script has assigned so
\* far; reading a name outside it raises NameError.  cond is the step that
\* failed, ret the exception that left the script uncaught, idx the total the
\* last line of the listener printed.
\* ---------------------------------------------------------------------------

\* expansion_dock_lidar_listener.py, line 20: the loop ends after 10 packets
DockPackets == 10

InitDock ==
    /\ prog = "expansion_dock_lidar_listener"
    /\ pc = "socket"
    /\ mainpc = "none"
    /\ th = << >>
    /\ bound = {}
    /\ found_devices = << >>
    /\ sent = << >>
    /\ success = FALSE
    /\ clock = 0
    /\ log = << >>
    /\ running = TRUE
    /\ packet_count = 0
    /\ sock = "unbound"
    /\ idx = -1
    /\ invoked = << >>
    /\ attempts = << >>
    /\ t0 = 0
    /\ ret = "none"
    /\ cond = "none"
    /\ printed = << >>
    /\ skips = 0

\* lines 9-10, before the try statement: the socket is created and given
\* SO_REUSEADDR; an OSError here is caught by nothing
DockSocket ==
    /\ prog = "expansion_dock_lidar_listener"
    /\ pc = "socket"
    /\ \E env \in {"Ok", "Error"} :
         IF env = "Ok"
         THEN /\ sock' = "created"
              /\ bound' = bound \cup {"sock"}
              /\ pc' = "bind"
              /\ UNCHANGED <<cond, ret>>
         ELSE /\ cond' = "socket"
              /\ ret' = "OSError"
              /\ pc' = "exited"
              /\ UNCHANGED <<sock, bound>>
    /\ UNCHANGED <<mainpc, th, found_devices, sent, success, prog, clock, log,
                   running, packet_count, idx, invoked, attempts, t0, printed,
                   skips>>

\* lines 14-19: bind, settimeout, the message, then packet_count = 0.  When
\* bind raises (the port is held by a socket without SO_REUSEADDR) control
\* goes to the except clause and line 19 is never run.
DockBind ==
    /\ prog = "expansion_dock_lidar_listener"
    /\ pc = "bind"
    /\ \E env \in {"Ok", "Error"} :
         IF env = "Ok"
         THEN /\ sock' = "bound"
              /\ printed' = Append(printed, "Listening for LiDAR data")
              /\ packet_count' = 0
              /\ bound' = bound \cup {"packet_count"}
              /\ pc' = "recvfrom"
              /\ UNCHANGED cond
         ELSE /\ cond' = "bind"
              /\ pc' = "except"
              /\ UNCHANGED <<sock, printed, packet_count, bound>>
    /\ UNCHANGED <<mainpc, th, found_devices, sent, success, prog, clock, log,
                   running, idx, invoked, attempts, t0, ret, skips>>

\* lines 20-29: one turn of the loop.  A datagram is counted and printed; the
\* 10 s timeout is reported by the inner handler and ends the loop; any other
\* OSError of recvfrom goes to the outer except clause.
DockRecv ==
    /\ prog = "expansion_dock_lidar_listener"
    /\ pc = "recvfrom"
    /\ \E env \in {"Data", "Timeout", "Error"} :
         CASE env = "Data" ->
                /\ packet_count' = packet_count + 1
                /\ printed' = Append(printed, "Packet")
                /\ pc' = IF packet_count + 1 < DockPackets THEN "recvfrom"
                                                           ELSE "finally"
                /\ UNCHANGED cond
           [] env = "Timeout" ->
                /\ printed' = Append(printed, "No data in 10 seconds")
                /\ pc' = "finally"
                /\ UNCHANGED <<packet_count, cond>>
           [] OTHER ->
                /\ cond' = "recvfrom"
                /\ pc' = "except"
                /\ UNCHANGED <<packet_count, printed>>
    /\ UNCHANGED <<more, prog, clock, log, running, sock, idx, invoked,
                   attempts, t0, ret, skips>>

\* lines 31-32: the outer handler prints the error
DockExcept ==
    /\ prog = "expansion_dock_lidar_listener"
    /\ pc = "except"
    /\ printed' = Append(printed, "Error")
    /\ pc' = "finally"
    /\ UNCHANGED <<more, prog, clock, log, running, packet_count, sock, idx,
                   invoked, attempts, t0, ret, cond, skips>>

\* lines 33-35: the socket is closed, then the total is printed from
\* packet_count; when that name was never assigned the f-string raises
\* NameError inside the finally clause and the script ends with a traceback
DockFinally ==
    /\ prog = "expansion_dock_lidar_listener"
    /\ pc = "finally"
    /\ sock' = "closed"
    /\ IF "packet_count" \in bound
       THEN /\ printed' = Append(printed, "Total packets captured")
            /\ idx' = packet_count
            /\ pc' = "done"
            /\ UNCHANGED ret
       ELSE /\ ret' = "NameError"
            /\ pc' = "exited"
            /\ UNCHANGED <<printed, idx>>
    /\ UNCHANGED <<more, prog, clock, log, running, packet_count, invoked,
                   attempts, t0, cond, skips>>

NextDock ==
    \/ DockSocket
    \/ DockBind
    \/ DockRecv
    \/ DockExcept
    \/ DockFinally

InitSimpleTest ==
    /\ prog = "simple_lidar_test"
    /\ pc = "socket"
    /\ mainpc = "none"
    /\ th = << >>
    /\ bound = {}
    /\ found_devices = << >>
    /\ sent = << >>
    /\ success = FALSE
    /\ clock = 0
    /\ log = << >>
    /\ running = TRUE
    /\ packet_count = 0
    /\ sock = "unbound"
    /\ idx = -1
    /\ invoked = << >>
    /\ attempts = << >>
    /\ t0 = 0
    /\ ret = "none"
    /\ cond = "none"
    /\ printed = << >>
    /\ skips = 0

\* simple_lidar_test.py, lines 10-11, inside the try statement: the socket
\* is created and assigned to sock; when socket() raises the name stays
\* unassigned
SimpleSocket ==
    /\ prog = "simple_lidar_test"
    /\ pc = "socket"
    /\ \E env \in {"Ok", "Error"} :
         IF env = "Ok"
         THEN /\ sock' = "created"
              /\ bound' = bound \cup {"sock"}
              /\ pc' = "connect"
              /\ UNCHANGED cond
         ELSE /\ cond' = "socket"
              /\ pc' = "except"
              /\ UNCHANGED <<sock, bound>>
    /\ UNCHANGED <<mainpc, th, found_devices, sent, success, prog, clock, log,
                   running, packet_count, idx, invoked, attempts, t0, ret,
                   printed, skips>>

\* lines 12-13: connect of the datagram socket; it raises when there is no
\* route to 192.168.123.20
SimpleConnect ==
    /\ prog = "simple_lidar_test"
    /\ pc = "connect"
    /\ \E env \in {"Ok", "Error"} :
         IF env = "Ok"
         THEN /\ sock' = "connected"
              /\ printed' = Append(printed, "LiDAR socket: Connected")
              /\ pc' = "recv"
              /\ UNCHANGED cond
         ELSE /\ cond' = "connect"
              /\ pc' = "except"
              /\ UNCHANGED <<sock, printed>>
    /\ UNCHANGED <<more, prog, clock, log, running, packet_count, idx,
                   invoked, attempts, t0, ret, skips>>

\* lines 16-18: one recv with a 5 s timeout; socket.timeout is an Exception
\* and goes to the handler like any other error
SimpleRecv ==
    /\ prog = "simple_lidar_test"
    /\ pc = "recv"
    /\ \E env \in {"Data", "Timeout", "Error"} :
         IF env = "Data"
         THEN /\ printed' = Append(printed, "Received")
              /\ pc' = "finally"
              /\ UNCHANGED cond
         ELSE /\ cond' = IF env = "Timeout" THEN "timeout" ELSE "recv"
              /\ pc' = "except"
              /\ UNCHANGED printed
    /\ UNCHANGED <<more, prog, clock, log, running, packet_count, sock, idx,
                   invoked, attempts, t0, ret, skips>>

\* lines 20-21: the handler prints the error
SimpleExcept ==
    /\ prog = "simple_lidar_test"
    /\ pc = "except"
    /\ printed' = Append(printed, "Error")
    /\ pc' = "finally"
    /\ UNCHANGED <<more, prog, clock, log, running, packet_count, sock, idx,
                   invoked, attempts, t0, ret, cond, skips>>

\* lines 22-24: sock.close(), which raises NameError when sock was never
\* assigned, then the last message
SimpleFinally ==
    /\ prog = "simple_lidar_test"
    /\ pc = "finally"
    /\ IF "sock" \in bound
       THEN /\ sock' = "closed"
            /\ printed' = Append(printed, "Test complete")
            /\ pc' = "sleep"
            /\ UNCHANGED ret
       ELSE /\ ret' = "NameError"
            /\ pc' = "exited"
            /\ UNCHANGED <<printed, sock>>
    /\ UNCHANGED <<more, prog, clock, log, running, packet_count, idx,
                   invoked, attempts, t0, cond, skips>>

\* line 26: the script stays up for 2 s and ends
SimpleSleep ==
    /\ prog = "simple_lidar_test"
    /\ pc = "sleep"
    /\ pc' = "done"
    /\ UNCHANGED <<more, prog, clock, log, running, packet_count, sock, idx,
                   invoked, attempts, t0, ret, cond, printed, skips>>

NextSimpleTest ==
    \/ SimpleSocket
    \/ SimpleConnect
    \/ SimpleRecv
    \/ SimpleExcept
    \/ SimpleFinally
    \/ SimpleSleep

Init ==
    \/ InitSniffer
    \/ InitRealLidar
    \/ InitSafeBridge
    \/ InitHesai
    \/ InitLidarBridge
    \/ InitListener
    \/ InitQuickCheck
    \/ InitNetConfig
    \/ InitClassifier
    \/ InitHardwareCheck
    \/ InitPorts
    \/ InitHesaiUdpBridge
    \/ InitDock
    \/ InitSimpleTest

Next ==
    \/ NextSniffer
    \/ NextRealLidar
    \/ NextSafeBridge
    \/ NextHesai
    \/ NextLidarBridge
    \/ NextListener
    \/ NextQuickCheck
    \/ NextNetConfig
    \/ NextClassifier
    \/ NextHardwareCheck
    \/ NextPorts
    \/ NextHesaiUdpBridge
    \/ NextDock
    \/ NextSimpleTest

Spec == Init /\ [][Next]_vars

\* the two bridge nodes alone, their reader threads taking the steps they can
InitBridges ==
    \/ InitLidarBridge
    \/ InitHesaiUdpBridge

NextBridges ==
    \/ NextLidarBridge
    \/ NextHesaiUdpBridge

LiveSpec ==
    /\ InitBridges
    /\ [][NextBridges]_vars
    /\ WF_vars(BridgeReader)
    /\ WF_vars(UdpReader)

(***************************************************************************)
(* Claims about enhanced_lidar_network_sniffer.main                        *)
(***************************************************************************)
Sniffer == prog = "enhanced_lidar_network_sniffer"

\* C1: the ladder calls its methods strictly in list order, each at most
\* once, and when the k-th method is the first to report success exactly k
\* methods have been called: none is called after it.
C1_FirstSuccessWins ==
    Sniffer =>
        /\ Len(invoked) <= Len(methods)
        /\ \A i \in 1..Len(invoked) : invoked[i] = methods[i]
        /\ \A k \in 1..Len(attempts) :
              /\ attempts[k].method = methods[k]
              /\ attempts[k].outcome = ReturnsTrue => Len(invoked) = k
        /\ (pc = "returned" /\ ret = ReturnsTrue) => Len(invoked) = idx

\* the third method of the list is the first to succeed, and the run is over
C1_Witness ==
    /\ Sniffer
    /\ pc = "done"
    /\ Len(attempts) = 3
    /\ attempts[3].outcome = ReturnsTrue
    /\ \A k \in 1..2 : attempts[k].outcome # ReturnsTrue

\* C2: an exception raised inside a ladder method (the failed open of the
\* raw socket and the error of the cleanup after it included) never leaves
\* main, and every method later in the list is still called, unless a
\* method before it succeeded (or the operator stopped the run with Ctrl-C,
\* which is no Exception in Python).
C2_ExceptionContained ==
    Sniffer =>
        /\ pc # "crashed"
        /\ \A k \in 1..Len(attempts) :
              attempts[k].outcome = RaisesException =>
                \A j \in (k + 1)..Len(methods) :
                    \/ j <= Len(invoked)
                    \/ pc \notin {"after", "done"}
                    \/ \E i \in 1..Len(attempts) :
                          /\ i < j
                          /\ attempts[i].outcome \in
                                {ReturnsTrue, RaisesKeyboardInterrupt}

\* the raw socket could not be opened, the cleanup raised, and the method
\* after it in the list was called all the same
C2_Witness ==
    /\ Sniffer
    /\ pc = "done"
    /\ Len(attempts) = 4
    /\ attempts[3].method = "method3_raw_socket"
    /\ attempts[3].cond = "PermissionDenied"
    /\ attempts[3].outcome = RaisesException
    /\ invoked[4] = "method2_promiscuous_sniff"

\* C3: the ladder sees a raw capture that could not open its socket for
\* lack of privilege end otherwise (an exception, at once) than one that
\* opened it and saw no packet before the timeout (False, after the
\* timeout).
C3_PermissionDeniedDistinct ==
    Sniffer =>
        \A k \in 1..Len(attempts) :
            attempts[k].method = "method3_raw_socket" =>
              /\ attempts[k].cond = "PermissionDenied" =>
                    /\ attempts[k].outcome = RaisesException
                    /\ attempts[k].dur = 0
                    /\ attempts[k].printed =
                          << <<"Method 3 failed", "PermissionDenied">> >>
              /\ attempts[k].cond = "Timeout" =>
                    /\ attempts[k].outcome = ReturnsFalse
                    /\ attempts[k].dur = Method3Timeout
                    /\ attempts[k].printed = << >>

\* a raw capture has ended for lack of privilege
C3_Witness ==
    /\ Sniffer
    /\ \E k \in 1..Len(attempts) :
          /\ attempts[k].method = "method3_raw_socket"
          /\ attempts[k].cond = "PermissionDenied"

(***************************************************************************)
(* Claims about a bind that finds the port in use                          *)
(***************************************************************************)
LidarBridge == prog = "lidar_bridge"

Listener == prog = "multi_ip_listener"

\* C4: a bind-listen attempt whose bind fails because the port is in use
\* ends otherwise than one that timed out, and the failure is not fatal.  In
\* the sniffer both return False to the ladder, the bind failure after
\* printing "Method 1 failed" with the error and the timeout after printing
\* nothing, and the ladder goes on to the next method of its list.  In
\* LidarBridge.read_lidar_data the bind failure is logged and the same pass
\* goes on to connect-mode, which no pass enters otherwise; a receive timeout
\* logs nothing and stays in the receive loop; the reader thread ends only
\* once the node has stopped it.
C4_PortInUseDistinctNonFatal ==
    /\ Sniffer =>
         \A k \in 1..Len(attempts) :
            attempts[k].method = "method1_direct_udp" =>
              /\ attempts[k].cond = "PortInUse" =>
                    /\ attempts[k].outcome = ReturnsFalse
                    /\ attempts[k].printed =
                          << <<"Method 1 failed", "PortInUse">> >>
                    /\ pc \in {"after", "done"} => Len(invoked) > k
                    /\ Len(invoked) > k =>
                          invoked[k + 1] = "method4_tcpdump_analysis"
              /\ attempts[k].cond = "Timeout" =>
                    /\ attempts[k].outcome = ReturnsFalse
                    /\ attempts[k].printed = << >>
    /\ LidarBridge =>
         /\ cond = "PortInUse" =>
               /\ pc = "connect"
               /\ invoked = << "bind" >>
               /\ printed = << "Could not bind to port",
                               "Trying alternative connection method" >>
         /\ (pc = "retry" /\ printed # << >>
               /\ printed[1] = "Could not bind to port") =>
               invoked = << "bind", "connect" >>
         /\ (\E i \in 1..Len(invoked) : invoked[i] = "connect") =>
               /\ invoked = << "bind", "connect" >>
               /\ printed[1] = "Could not bind to port"
         /\ (pc = "recvfrom" /\ cond = "Timeout") =>
               /\ invoked = << "bind" >>
               /\ printed = << >>
         /\ pc = "terminated" => ~running

\* the sniffer's bind-listen found the port in use and the ladder called its
\* next method
C4_Witness ==
    /\ Sniffer
    /\ Len(attempts) >= 1
    /\ attempts[1].method = "method1_direct_udp"
    /\ attempts[1].cond = "PortInUse"
    /\ Len(invoked) >= 2

\* a pass of the bridge's reader whose bind failed has been through
\* connect-mode
C4_BridgeFallbackReached ==
    /\ LidarBridge
    /\ pc = "retry"
    /\ invoked = << "bind", "connect" >>

\* C5: of two bind-listen attempts of one process on the same port that
\* overlap in time, the second (the one that binds while the other's socket
\* is bound to an overlapping address) ends with PortInUse; no attempt ends
\* in an uncaught exception, and none waits without a timeout.
C5_SecondBindPortInUse ==
    Listener =>
        \A t \in Threads :
            /\ th[t].overlapped => th[t].outcome = "PortInUse"
            /\ th[t].pc \in {"start", "recvfrom", "done"}
            /\ th[t].pc = "recvfrom" => th[t].timeout > 0

\* of two overlapping attempts of which one does not set SO_REUSEADDR, the
\* second ends with PortInUse while the first keeps its socket; no attempt
\* ends in an uncaught exception, and none waits without a timeout
C5_ExclusiveBindPortInUse ==
    Listener =>
        \A t \in Threads :
            /\ (th[t].overlapped
                  /\ \E u \in Threads \ {t} : ~(th[t].reuse /\ th[u].reuse))
                 => /\ th[t].outcome = "PortInUse"
                    /\ th[t].pc = "done"
            /\ th[t].outcome = "PortInUse" => th[t].overlapped
            /\ th[t].pc \in {"start", "recvfrom", "done"}
            /\ th[t].pc = "recvfrom" =>
                 /\ th[t].timeout > 0
                 /\ \E b \in bound : b.owner = t

\* two attempts that both set SO_REUSEADDR hold the port at the same time
C5_BothBound ==
    /\ Listener
    /\ \A t \in Threads : th[t].pc = "recvfrom" /\ th[t].reuse
    /\ \E t \in Threads : th[t].overlapped

(***************************************************************************)
(* Claims about the duration of one capture attempt                        *)
(***************************************************************************)
\* the timeout each capture method sets on its socket
TimeoutOf(method) ==
    CASE method = "method1_direct_udp" -> Method1Timeout
      [] method = "method3_raw_socket" -> Method3Timeout
      [] method = "capture_lidar_packet" -> CaptureTimeout

\* C6: every attempt of method1_direct_udp, capture_lidar_packet and
\* method3_raw_socket returns within its timeout T of its start, whatever
\* traffic arrives.
C6_AttemptWithinTimeout ==
    \A k \in 1..Len(attempts) :
        attempts[k].method \in {"method1_direct_udp", "method3_raw_socket",
                               "capture_lidar_packet"}
            => attempts[k].dur <= TimeoutOf(attempts[k].method)

\* what does hold of the code: the two methods that call recvfrom once
\* return within their timeout, and a raw capture that skipped no packet
\* does too
C6_SingleReceiveWithinTimeout ==
    \A k \in 1..Len(attempts) :
        /\ attempts[k].method \in {"method1_direct_udp", "capture_lidar_packet"}
              => attempts[k].dur <= TimeoutOf(attempts[k].method)
        /\ (attempts[k].method = "method3_raw_socket"
              /\ attempts[k].cond \in {"Timeout", "PermissionDenied"})
              => attempts[k].dur <= Method3Timeout

(***************************************************************************)
(* Claims about SafeLidarBridge.test_lidar                                 *)
(***************************************************************************)
SafeBridge == prog = "safe_lidar_bridge"

\* C7: the retry loop is bounded by its 30 s deadline: no attempt starts
\* once 30 s have elapsed, an attempt starts the fixed sleep after the one
\* before it ended, the first datagram received makes the loop return True,
\* and otherwise, whatever timeouts and bind errors the attempts meet, the
\* loop ends after at most 30/2 attempts and returns False.
C7_RetryLoopBounded ==
    SafeBridge =>
        /\ idx >= 1 => t0 < SafeDeadline
        /\ idx <= SafeDeadline \div SafeSleep
        /\ clock < SafeDeadline + SafeRecvTimeout + SafeSleep
        /\ (pc = "try" /\ idx > 1) =>
              t0 = attempts[1].start + attempts[1].dur + SafeSleep
        /\ (attempts # << >> /\ attempts[1].cond = "Data") =>
              (pc = "done" /\ ret = ReturnsTrue)
        /\ ret = ReturnsTrue =>
              (pc = "done" /\ attempts[1].cond = "Data")
        /\ (pc = "done" /\ attempts # << >>
               /\ attempts[1].cond \in {"Timeout", "PortInUse", "RecvError"}) =>
              (ret = ReturnsFalse /\ clock >= SafeDeadline)

\* the loop has run its fifteen attempts, the last one a timeout, and has
\* returned False
C7_Witness ==
    /\ SafeBridge
    /\ pc = "done"
    /\ ret = ReturnsFalse
    /\ idx = SafeDeadline \div SafeSleep
    /\ attempts[1].cond = "Timeout"

(***************************************************************************)
(* Claims about hesai_xt16_activation                                      *)
(***************************************************************************)
Hesai == prog = "hesai_xt16_activation"

\* C8: send_activation_commands sends each command of its list once and in
\* list order, whether a command is answered, not answered or fails with a
\* socket error: no failure of one command ends the call, which returns
\* only with all three sent, and a command is recorded as responded only
\* when a response arrived.
C8_AllCommandsSent ==
    Hesai =>
        /\ pc # "crashed"
        /\ Len(sent) <= Len(commands)
        /\ \A i \in 1..Len(sent) :
              /\ sent[i].cmd = commands[i]
              /\ sent[i].ip = found_devices[idx]
              /\ sent[i].responded <=> sent[i].outcome = "Response"
        /\ (pc # "commands" /\ sent # << >>) =>
              (pc = "test_udp_data_port" /\ Len(sent) = Len(commands))

\* the call has returned after three commands, the first failed on send,
\* none answered
C8_Witness ==
    /\ Hesai
    /\ pc = "test_udp_data_port"
    /\ Len(sent) = 3
    /\ sent[1].outcome = "SendError"
    /\ \A i \in 1..3 : ~sent[i].responded

\* C9: the verdict of the run is success exactly when, for at least one
\* reachable endpoint, a capture received a datagram and the classifier
\* accepted it; with endpoints reachable and every capture timing out the
\* verdict is failure.
C9_VerdictIffAccepted ==
    (Hesai /\ pc = "done" /\ found_devices # << >>) =>
        /\ ret \in {"Hesai XT-16 Successfully Activated",
                     "Hesai XT-16 Activation Failed"}
        /\ ret = "Hesai XT-16 Successfully Activated" <=>
              \E k \in 1..Len(attempts) :
                  /\ attempts[k].received
                  /\ attempts[k].matched
                  /\ \E i \in 1..Len(found_devices) :
                        attempts[k].ip = found_devices[i]
        /\ (\A k \in 1..Len(attempts) : attempts[k].cond = "Timeout") =>
              ret = "Hesai XT-16 Activation Failed"

\* a run in which the first endpoint stayed silent and the second one sent
\* a datagram the classifier accepted
C9_Witness ==
    /\ Hesai
    /\ pc = "done"
    /\ ret = "Hesai XT-16 Successfully Activated"
    /\ Len(attempts) = 2
    /\ attempts[1].cond = "Timeout"
    /\ attempts[2].received /\ attempts[2].matched

\* C10: a capture whose datagram the classifier rejects is reported for
\* its endpoint as data of an unexpected format, otherwise than a capture
\* that received nothing before the timeout.
C10_RejectedDistinctFromTimeout ==
    Hesai =>
        \A k \in 1..Len(attempts) :
            /\ (attempts[k].received /\ ~attempts[k].matched) =>
                  /\ attempts[k].printed =
                        << "Received", "Data format doesn't match Hesai XT-16" >>
                  /\ attempts[k].outcome # ReturnsTrue
            /\ attempts[k].cond = "Timeout" =>
                  /\ attempts[k].printed = << "No data received (timeout)" >>
                  /\ attempts[k].outcome = ReturnsFalse

\* a run with one capture rejected by the classifier and one timed out
C10_Witness ==
    /\ Hesai
    /\ \E k \in 1..Len(attempts) :
          attempts[k].received /\ ~attempts[k].matched
    /\ \E k \in 1..Len(attempts) : attempts[k].cond = "Timeout"

(***************************************************************************)
(* Claims about the scan of the candidate addresses                        *)
(***************************************************************************)
QuickCheck == prog = "quick_hesai_check"

\* the addresses of `ips` whose probe, in `probes`, met the outcome `reply`,
\* in the order of the list
Repliers(ips, probes, reply) ==
    LET F[i \in 0..Len(ips)] ==
          IF i = 0 THEN << >>
          ELSE IF probes[i][2] = reply THEN Append(F[i - 1], ips[i])
                                       ELSE F[i - 1]
    IN  F[Len(ips)]

\* every address of `ips` was probed once, in the order of the list
ProbedInOrder(ips, probes) ==
    /\ Len(probes) = Len(ips)
    /\ \A i \in 1..Len(ips) : probes[i][1] = ips[i]

\* C11: whatever the probes met (a reply, no reply, an error, a timeout), a
\* scan that has returned has probed every candidate once in list order and
\* has returned the candidates that replied, in list order, the empty list
\* when none replied; this for scan_for_lidar and for ping_hesai_addresses.
C11_ScanReturnsRepliers ==
    /\ (Hesai /\ pc = "scanned") =>
          /\ ProbedInOrder(possible_ips, invoked)
          /\ found_devices = Repliers(possible_ips, invoked, "responds to ping")
    /\ (QuickCheck /\ pc = "scanned") =>
          /\ ProbedInOrder(test_ips, invoked)
          /\ found_devices = Repliers(test_ips, invoked, "reply")

\* scan_for_lidar alone does what C11 says
C11_ScanForLidarExact ==
    (Hesai /\ pc = "scanned") =>
        /\ ProbedInOrder(possible_ips, invoked)
        /\ found_devices = Repliers(possible_ips, invoked, "responds to ping")

\* ping_hesai_addresses does what C11 says where ping writes "TTL=", and
\* probes every candidate once in list order everywhere
C11_PingHesaiExactOnWindows ==
    (QuickCheck /\ pc = "scanned") =>
        /\ ProbedInOrder(test_ips, invoked)
        /\ cond = "Windows" =>
             found_devices = Repliers(test_ips, invoked, "reply")
        /\ cond = "Linux" => found_devices = << >>

\* ping_hesai_addresses has returned the empty list although a candidate
\* replied
C11_ReplyNotReturned ==
    /\ QuickCheck
    /\ pc = "scanned"
    /\ found_devices = << >>
    /\ \E i \in 1..Len(invoked) : invoked[i][2] = "reply"

\* the run has tested a device: main has entered its loop over the found
\* addresses
TestedADevice ==
    \E i \in 1..Len(log) : log[i][1] = "Testing device at"

\* C12: a run whose scan found no endpoint ends with the remediation text
\* (in hesai_xt16_activation the network guidance, in quick_hesai_check the
\* power, cable and network steps); it has entered no device test, sent no
\* activation command, attempted no capture and opened no socket.
C12_NoEndpointEndsWithRemediation ==
    /\ (Hesai /\ found_devices = << >>
          /\ pc \notin {"check_power_status", "scan_for_lidar", "scanned"}) =>
          /\ pc = "done"
          /\ ret \in {"No LiDAR found on network", "Resolve power issues"}
          /\ ~TestedADevice
          /\ sent = << >>
          /\ attempts = << >>
          /\ sock = "unbound"
    /\ (QuickCheck /\ found_devices = << >>
          /\ pc \notin {"ping_hesai_addresses", "scanned"}) =>
          /\ pc = "done"
          /\ ret = "No Hesai devices found on network"
          /\ ~TestedADevice
          /\ sent = << >>
          /\ invoked = << >>
          /\ sock = "unbound"

\* the scan of hesai_xt16_activation found nothing and the run has ended
C12_Witness ==
    /\ Hesai
    /\ pc = "done"
    /\ ret = "No LiDAR found on network"
    /\ found_devices = << >>

\* the scan of quick_hesai_check found nothing and the run has ended
C12_QuickNothingFound ==
    /\ QuickCheck
    /\ pc = "done"
    /\ found_devices = << >>

(***************************************************************************)
(* Claims about the fallback to broadcast discovery                        *)
(***************************************************************************)
NetConfig == prog = "hesai_network_config"

\* the steps of the run that belong to broadcast discovery
DiscoverySteps ==
    { i \in 1..Len(invoked) :
        invoked[i][1] \in {"try_hesai_broadcast_discovery", "broadcast"} }

\* the direct scan has returned without a device, as step j of the run
ScanFoundNoneAt(j) ==
    /\ invoked[j][1] = "scan returns"
    /\ invoked[j][2] = << >>

\* C13: in hesai_network_config.main every step of broadcast discovery comes
\* after the direct scan has returned, the scan having found no device, and
\* no candidate is pinged after that; once main is past its first step,
\* discovery has been called if and only if the scan returned no device.
C13_BroadcastIffScanFoundNone ==
    NetConfig =>
      /\ \A i \in DiscoverySteps :
            \E j \in 1..(i - 1) :
               /\ ScanFoundNoneAt(j)
               /\ \A k \in 1..Len(invoked) : invoked[k][1] = "ping" => k < j
      /\ pc \in {"try_hesai_broadcast_discovery", "broadcast", "discovered",
                 "step3", "final", "done"} =>
            ((\E j \in 1..Len(invoked) : ScanFoundNoneAt(j))
               <=> (\E i \in 1..Len(invoked) :
                       invoked[i][1] = "try_hesai_broadcast_discovery"))

\* the scan pinged candidates, found none, and a discovery packet was then
\* broadcast
C13_Witness ==
    /\ NetConfig
    /\ \E i \in 1..Len(invoked) : invoked[i][1] = "ping"
    /\ \E i \in 1..Len(invoked) : invoked[i][1] = "broadcast"

(***************************************************************************)
(* Claims about the packet classifiers                                     *)
(***************************************************************************)
Classifier == prog = "classifier"

\* the minimum size below which a classifier rejects every buffer
MinSizeOf(method) ==
    IF method = "analyze_lidar_packet" THEN LidarMinSize ELSE HesaiMinSize

\* the magic patterns a classifier is configured with
PatternsOf(method) ==
    IF method = "analyze_lidar_packet" THEN hesai_headers ELSE hesai_patterns

\* C14: each classifier returns no-match for every buffer shorter than its
\* minimum size (16 bytes for analyze_lidar_packet, 512 bytes for
\* analyze_hesai_packet), by its length test, whatever the buffer holds, a
\* leading magic pattern included; so for every buffer of 10 bytes.
C14_ShortBuffersNoMatch ==
    Classifier =>
      \A k \in 1..Len(attempts) :
         /\ sent[1].len < MinSizeOf(attempts[k].method) =>
               /\ attempts[k].outcome = FALSE
               /\ attempts[k].rule = "TooShort"
         /\ sent[1].len = 10 => attempts[k].outcome = FALSE

\* both classifiers have judged a buffer of 10 bytes that begins with a
\* magic pattern of analyze_hesai_packet (and so with one of
\* analyze_lidar_packet)
C14_Witness ==
    /\ Classifier
    /\ sent[1].len = 10
    /\ sent[1].head \in hesai_patterns
    /\ Len(attempts) = 2

\* C15 as stated: a buffer made of a configured magic pattern followed by
\* trailing bytes of any length, none included, is classified as a match by
\* the signature rule.
C15_PatternPrefixAlwaysSignature ==
    Classifier =>
      \A k \in 1..Len(attempts) :
         sent[1].head \in PatternsOf(attempts[k].method) =>
            /\ attempts[k].outcome = TRUE
            /\ attempts[k].rule = "Signature"

\* C15 amended: a buffer made of a configured magic pattern followed by
\* trailing bytes is classified as a match by the signature rule when it is
\* at least as long as the classifier's minimum size, and as no-match when
\* it is shorter.
C15_PatternPrefixSignatureFromMinSize ==
    Classifier =>
      \A k \in 1..Len(attempts) :
         sent[1].head \in PatternsOf(attempts[k].method) =>
            IF sent[1].len >= MinSizeOf(attempts[k].method)
              THEN /\ attempts[k].outcome = TRUE
                   /\ attempts[k].rule = "Signature"
              ELSE /\ attempts[k].outcome = FALSE
                   /\ attempts[k].rule = "TooShort"

\* both classifiers have judged a buffer of 600 bytes that begins with a
\* magic pattern of theirs and is too short for any size rule
C15_Witness ==
    /\ Classifier
    /\ sent[1].len = 600
    /\ sent[1].head \in hesai_patterns
    /\ Len(attempts) = 2
    /\ \A k \in 1..2 : attempts[k].rule = "Signature"

\* C16: a buffer of 1400 bytes that begins with 0xEE 0xFF is classified as
\* a match by either classifier whatever its other bytes are, and the rule
\* that decides is the signature rule.
C16_EEFFBufferSignatureMatch ==
    Classifier =>
      \A k \in 1..Len(attempts) :
         (sent[1].len = 1400 /\ Len(sent[1].head) >= 2
            /\ SubSeq(sent[1].head, 1, 2) = <<238, 255>>) =>
            /\ attempts[k].outcome = TRUE
            /\ attempts[k].rule = "Signature"

\* such a buffer is a match for both classifiers, and for
\* analyze_lidar_packet by the signature rule
C16_EEFFBufferMatched ==
    Classifier =>
      \A k \in 1..Len(attempts) :
         (sent[1].len = 1400 /\ Len(sent[1].head) >= 2
            /\ SubSeq(sent[1].head, 1, 2) = <<238, 255>>) =>
            /\ attempts[k].outcome = TRUE
            /\ attempts[k].method = "analyze_lidar_packet" =>
                  attempts[k].rule = "Signature"

\* analyze_hesai_packet has matched a buffer of 1400 bytes beginning with
\* 0xEE 0xFF by its size alone
C16_MatchedBySizeOnly ==
    /\ Classifier
    /\ sent[1].len = 1400
    /\ sent[1].head = <<238, 255>>
    /\ \E k \in 1..Len(attempts) :
          /\ attempts[k].method = "analyze_hesai_packet"
          /\ attempts[k].rule = "Size"

\* the number of leading bytes a classifier searches for its patterns
WindowOf(method) ==
    IF method = "analyze_lidar_packet" THEN LidarHeaderWindow
                                       ELSE HesaiHeaderWindow

\* the length is one the classifier accepts by itself
InSizeRange(method, n) ==
    IF method = "analyze_lidar_packet"
      THEN n >= LidarTypicalSize
      ELSE n > HesaiSizeLow /\ n < HesaiSizeHigh

\* the buffer holds the pattern from position i on
HoldsAt(data, pattern, i) ==
    /\ i + Len(pattern) - 1 <= Len(data)
    /\ \A j \in 1..Len(pattern) : data[i + j - 1] = pattern[j]

\* the positions at which the buffer holds one of the classifier's patterns
\* with the last byte of the pattern inside the window
InsideWindow(method, data) ==
    { i \in 1..WindowOf(method) :
        \E pattern \in PatternsOf(method) :
           /\ i + Len(pattern) - 1 <= WindowOf(method)
           /\ HoldsAt(data, pattern, i) }

\* the positions up to the one after the window at which the buffer holds
\* one of the classifier's patterns
AnyOccurrence(method, data) ==
    { i \in 1..(WindowOf(method) + 1) :
        \E pattern \in PatternsOf(method) : HoldsAt(data, pattern, i) }

\* C21: for a buffer of at least the minimum size, a classifier matches only
\* if one of its magic patterns lies entirely inside its header window (8
\* bytes for analyze_lidar_packet, 20 for analyze_hesai_packet) or the
\* length of the buffer is in the size range; a buffer whose occurrences of
\* a pattern all begin beyond the window or lie across its end, and whose
\* length is outside the range, is not matched.
C21_MatchNeedsPatternInWindowOrSize ==
    Classifier =>
      \A k \in 1..Len(attempts) :
         LET m == attempts[k].method
             data == Filled(sent[1].head, sent[1].len, sent[1].fill)
         IN  Len(data) >= MinSizeOf(m) =>
               /\ attempts[k].outcome =>
                     \/ InsideWindow(m, data) # {}
                     \/ InSizeRange(m, Len(data))
               /\ attempts[k].rule = "Signature" <=> InsideWindow(m, data) # {}
               /\ (InsideWindow(m, data) = {} /\ ~InSizeRange(m, Len(data)))
                     => ~attempts[k].outcome

\* analyze_hesai_packet has rejected a buffer of 600 bytes that holds one of
\* its patterns in bytes 19 to 22, across the end of its window
C21_Witness ==
    /\ Classifier
    /\ sent[1].len = 600
    /\ sent[1].head = ZerosThen(HesaiHeaderWindow - 2, <<238, 255, 85, 170>>)
    /\ \E k \in 1..Len(attempts) :
          /\ attempts[k].method = "analyze_hesai_packet"
          /\ AnyOccurrence(attempts[k].method,
                Filled(sent[1].head, sent[1].len, sent[1].fill)) # {}
          /\ ~attempts[k].outcome

\* analyze_lidar_packet has rejected a buffer of 20 bytes whose bytes 8 and 9
\* are 0xEE 0xFF
C21_StraddlingLidarWindow ==
    /\ Classifier
    /\ sent[1].len = 20
    /\ sent[1].head = ZerosThen(LidarHeaderWindow - 1, <<238, 255>>)
    /\ \E k \in 1..Len(attempts) :
          /\ attempts[k].method = "analyze_lidar_packet"
          /\ ~attempts[k].outcome

(***************************************************************************)
(* Claims about the sockets of the capture and command operations          *)
(***************************************************************************)
HardwareCheck == prog = "check_lidar_hardware"

\* C17: whenever a capture or command operation has returned, the socket it
\* opened is closed, whichever way it ended (a datagram accepted, a datagram
\* rejected, a timeout, an error): test_udp_data_port and
\* send_activation_commands of hesai_xt16_activation, test_udp_data and
\* send_activation_command of quick_hesai_check, and every pass of
\* test_after_activation.
C17_SocketClosedOnEveryExit ==
    /\ (Hesai /\ pc \in {"for", "test_udp_data_port", "summary", "done"}) =>
          sock # "open"
    /\ (QuickCheck /\ pc \in {"for", "send_activation_command", "test_again",
                              "summary", "done"}) =>
          sock # "open"
    /\ HardwareCheck =>
          \A k \in 1..Len(attempts) :
             attempts[k].opened => attempts[k].closed

\* the exits on which the code does close the socket: in test_udp_data_port
\* the rejected datagram, in test_udp_data the received datagram, in
\* test_after_activation the received datagram and the timeout
C17_ClosedWhereTheCodeCloses ==
    /\ Hesai =>
          \A k \in 1..Len(attempts) :
             (k = Len(attempts) /\ pc \in {"for", "summary", "done"}
                /\ attempts[k].received /\ ~attempts[k].matched) =>
                sock = "closed"
    /\ (QuickCheck /\ pc \in {"for", "send_activation_command", "test_again",
                              "summary", "done"}
          /\ printed = << "RECEIVED" >>) =>
          sock = "closed"
    /\ HardwareCheck =>
          \A k \in 1..Len(attempts) :
             attempts[k].cond \in {"Timeout", "Data"} => attempts[k].closed

\* test_udp_data_port has returned True for an accepted datagram and its
\* socket was not closed
C17_AcceptedLeftOpen ==
    /\ Hesai
    /\ pc = "done"
    /\ success
    /\ sock = "open"

(***************************************************************************)
(* Claims about the concurrent port probes                                 *)
(***************************************************************************)
PortProbes == prog = "test_after_cable_connection"

\* C18: in test_udp_ports_improved every probe writes one result, under the
\* key of its own port and as the step that ends it, so results never holds
\* a value written by another probe nor a second value for a key; and when
\* the summary reads results, after the joins, every probe has ended and
\* every port has its result.
C18_OneResultPerProbe ==
    PortProbes =>
      /\ \A i \in 1..Len(ports) :
            /\ Len(ResultsOf(ports[i])) = IF th[i].pc = "done" THEN 1 ELSE 0
            /\ \A k \in 1..Len(ResultsOf(ports[i])) :
                  ResultsOf(ports[i])[k].by = ports[i]
      /\ mainpc \in {"summary", "done"} =>
            /\ \A i \in 1..Len(ports) : th[i].pc = "done"
            /\ printed = << { ports[i] : i \in 1..Len(ports) } >>

\* the summary was computed after one probe had received a datagram while
\* another was still waiting and later timed out
C18_Witness ==
    /\ PortProbes
    /\ mainpc = "done"
    /\ clock = ListenPortTimeout
    /\ ResultsOf(2368) # << >> /\ ResultsOf(2368)[1].success
    /\ ResultsOf(2369) # << >> /\ ~ResultsOf(2369)[1].success
    /\ ResultsOf(2369)[1].error = "None"

\* two probes wait in recvfrom at the same time
C18_ProbesOverlap ==
    /\ PortProbes
    /\ th[1].pc = "recvfrom"
    /\ th[2].pc = "recvfrom"
    /\ clock > 0

(***************************************************************************)
(* Claims about the cancellation of the reader threads                     *)
(***************************************************************************)
UdpBridge == prog = "hesai_udp_bridge"

\* the reader thread has ended and its socket is not open
ReaderEnded ==
    /\ pc = "terminated"
    /\ sock \in {"closed", "unbound"}

\* C19: once destroy_node has cleared the flag, the reader thread of
\* LidarBridge and the receive thread of HesaiXT16Bridge terminate, the
\* socket closed, from whatever state they were in; and the reader of
\* LidarBridge issues no receive it had not yet issued.
C19_CancelledReaderTerminates ==
    ((LidarBridge \/ UdpBridge) /\ ~running) ~> ReaderEnded

\* the reader thread of LidarBridge alone does terminate, its socket closed,
\* once the flag is cleared
C19_LidarBridgeReaderTerminates ==
    (LidarBridge /\ ~running) ~> ReaderEnded

\* the receive thread of HesaiXT16Bridge terminates once the flag is
\* cleared when its socket has the timeout or does not exist
C19_UdpReaderTerminatesUnlessBlocked ==
    (UdpBridge /\ ~running /\ pc # "blocked") ~> ReaderEnded

\* the reader of LidarBridge issues no receive after the flag was cleared
C19_NoReceiveAfterCancel ==
    LidarBridge => ret # "receive issued after cancellation"

\* the flag of HesaiXT16Bridge is cleared while its receive thread is in a
\* recvfrom that has no timeout
C19_BlockedAfterCancel ==
    /\ UdpBridge
    /\ ~running
    /\ pc = "blocked"


\* ---------------------------------------------------------------------------
\* The stand-alone listeners
\* ---------------------------------------------------------------------------

Dock == prog = "expansion_dock_lidar_listener"

SimpleTest == prog = "simple_lidar_test"

\* the script is over: its last statement ran, or an exception left it
ScriptOver == pc \in {"done", "exited"}

\* the last line of the script was printed
SummaryPrinted ==
    /\ Len(printed) > 0
    /\ printed[Len(printed)] = IF Dock THEN "Total packets captured"
                                       ELSE "Test complete"

\* the handler printed the error
ErrorReported == \E i \in 1..Len(printed) : printed[i] = "Error"

\* C20: in expansion_dock_lidar_listener and simple_lidar_test, whenever the
\* script is over, no exception left it uncaught, the socket is closed, the
\* final summary line was printed, a failure of socket setup, bind, connect
\* or receive was reported, and after a bind failure the total printed is 0.
C20_FailuresCaughtAndSummaryReached ==
    (Dock \/ SimpleTest) /\ ScriptOver =>
        /\ ret = "none"
        /\ SummaryPrinted
        /\ cond # "none" => ErrorReported
        /\ "sock" \in bound => sock = "closed"
        /\ cond = "bind" => idx = 0

\* C20, the part the code has: a failure of connect or of a receive is
\* reported, the socket is closed and the final line is printed.
C20_ConnectAndReceiveFailuresHandled ==
    (Dock \/ SimpleTest) /\ ScriptOver
                         /\ cond \in {"connect", "recv", "recvfrom", "timeout"} =>
        /\ ret = "none"
        /\ sock = "closed"
        /\ ErrorReported
        /\ SummaryPrinted

\* C20: the listener after a bind failure: the error was reported and the
\* socket closed, then NameError left the script before the total was printed
C20_BindFailureEndsInNameError ==
    /\ Dock
    /\ ScriptOver
    /\ cond = "bind"
    /\ ErrorReported
    /\ sock = "closed"
    /\ ret = "NameError"
    /\ ~SummaryPrinted

\* C20: a receive failure that was handled as the claim says
C20_ReceiveFailureHandled ==
    /\ Dock \/ SimpleTest
    /\ ScriptOver
    /\ cond \in {"recv", "recvfrom"}
    /\ ret = "none"
    /\ sock = "closed"
    /\ SummaryPrinted


(***************************************************************************)
(* Claims about the receives of HesaiXT16Bridge                            *)
(***************************************************************************)
\* C22: every receive of receive_lidar_data is made on a socket whose
\* timeout has been set, in every reachable state, the one after a failed
\* bind in setup_udp_socket included; so no receive blocks indefinitely.
C22_EveryReceiveHasTimeout ==
    UdpBridge =>
      /\ pc = "recvfrom" => sock # "untimed"
      /\ pc # "blocked"

\* C22, the part the code has: on the socket that setup_udp_socket bound a
\* receive is never one without timeout
C22_BoundSocketReceivesWithTimeout ==
    (UdpBridge /\ sock = "open") => pc # "blocked"

\* the receive thread is in a recvfrom on the socket that setup_udp_socket
\* created and could not bind, while the node is still spinning
C22_BlockedWhileSpinning ==
    /\ UdpBridge
    /\ mainpc = "spin"
    /\ running
    /\ sock = "untimed"
    /\ pc = "blocked"

\* a receive on the bound socket has ended with the timeout and the loop has
\* tested the flag again
C22_TimeoutThenFlagTested ==
    /\ UdpBridge
    /\ sock = "open"
    /\ cond = "Timeout"
    /\ pc = "while"


(***************************************************************************)
(* Claims about the raw capture of the sniffer                             *)
(***************************************************************************)
\* the UDP header of the packet is whole
HasUdpHeader(packet) ==
    Len(packet.words) >= 2 * (packet.ihl - 5) + 4

\* the destination port in the UDP header of the packet, which begins where
\* the IP header of ihl 32-bit words ends
UdpDestPort(packet) == packet.words[2 * (packet.ihl - 5) + 2]

\* the packet is a UDP packet to the target port
MatchesTarget(packet) ==
    /\ packet.protocol = ProtoUDP
    /\ HasUdpHeader(packet)
    /\ UdpDestPort(packet) = LidarPort

\* C23: method3_raw_socket counts a packet and reports success only when the
\* protocol field of its IP header is UDP (17) and the destination port of
\* its UDP header is the target port; every other packet it receives is
\* skipped: not counted, and the attempt does not end with it.
C23_SuccessOnlyForMatchingPacket ==
    Sniffer =>
      \A k \in 1..Len(sent) :
         /\ sent[k].counted => MatchesTarget(sent[k].packet)
         /\ ~MatchesTarget(sent[k].packet) =>
               ~sent[k].counted /\ ~sent[k].ended

\* C23, the part the code has: for the packets whose IP header has no
\* options and whose UDP header is whole, the packet is counted and ends the
\* attempt with success exactly when it is a UDP packet to the target port,
\* and is skipped otherwise.
C23_ExactWithoutIpOptions ==
    Sniffer =>
      \A k \in 1..Len(sent) :
         (sent[k].packet.ihl = 5 /\ HasUdpHeader(sent[k].packet)) =>
            /\ sent[k].counted <=> MatchesTarget(sent[k].packet)
            /\ sent[k].ended <=> MatchesTarget(sent[k].packet)

\* method3_raw_socket has reported success for a packet to another port
\* whose IP header has an option
C23_SuccessForOtherPort ==
    /\ Sniffer
    /\ \E k \in 1..Len(sent) :
          /\ sent[k].counted
          /\ sent[k].packet.ihl = 6
          /\ UdpDestPort(sent[k].packet) = LidarPort + 1
    /\ \E k \in 1..Len(attempts) :
          /\ attempts[k].method = "method3_raw_socket"
          /\ attempts[k].outcome = ReturnsTrue

\* method3_raw_socket has skipped two packets and then reported success for
\* a UDP packet to the target port
C23_MatchAfterSkips ==
    /\ Sniffer
    /\ Len(sent) = 3
    /\ \A k \in 1..2 : ~sent[k].counted /\ ~sent[k].ended
    /\ sent[3].counted /\ MatchesTarget(sent[3].packet)
    /\ sent[3].packet.ihl = 5

\* a packet that ends before its UDP header does has ended the attempt
C23_ShortPacketEndsAttempt ==
    /\ Sniffer
    /\ \E k \in 1..Len(sent) :
          /\ ~HasUdpHeader(sent[k].packet)
          /\ sent[k].ended


(***************************************************************************)
(* Claims about the tcpdump method of the sniffer                          *)
(***************************************************************************)
\* a line of the standard output of the subprocess holds the port string
SomeLineHasPort ==
    /\ th # << >>
    /\ th[1].started
    /\ \E i \in 1..Len(th[1].stdout) :
          \E j \in 1..Len(th[1].stdout[i]) :
             /\ j + Len(PortString) - 1 <= Len(th[1].stdout[i])
             /\ SubSeq(th[1].stdout[i], j, j + Len(PortString) - 1) = PortString

\* C24: method4_tcpdump_analysis returns True if and only if a line of the
\* standard output of the tool holds the string '2368', and the packet count
\* stays as it was (no payload is recovered); when the tool cannot be started
\* or writes nothing it returns False and raises nothing, and the ladder goes
\* on to the next method.
C24_TcpdumpSuccessIffPortLine ==
    Sniffer =>
      /\ (pc = "returned" /\ methods[idx] = "method4_tcpdump_analysis") =>
            /\ ret = ReturnsTrue <=> SomeLineHasPort
            /\ ret \in {ReturnsTrue, ReturnsFalse}
            /\ packet_count = 0
            /\ (~th[1].started \/ th[1].stdout = << >>) => ret = ReturnsFalse
      /\ \A k \in 1..Len(attempts) :
            attempts[k].method = "method4_tcpdump_analysis" =>
               /\ attempts[k].outcome = ReturnsTrue <=> SomeLineHasPort
               /\ attempts[k].outcome = ReturnsFalse =>
                     /\ idx > k
                     /\ pc = "loop" \/ Len(invoked) > k

\* the tool could not be started, method4 returned False and the ladder has
\* called the next method
C24_Witness ==
    /\ Sniffer
    /\ th # << >>
    /\ ~th[1].started
    /\ Len(attempts) >= 2
    /\ attempts[2].method = "method4_tcpdump_analysis"
    /\ attempts[2].outcome = ReturnsFalse
    /\ Len(invoked) = 3
    /\ invoked[3] = "method3_raw_socket"

\* method4 has reported success from the second line of the output, the
\* packet count being 0
C24_SuccessWithoutPayload ==
    /\ Sniffer
    /\ th # << >>
    /\ Len(th[1].stdout) = 2
    /\ pc = "done"
    /\ attempts[Len(attempts)].method = "method4_tcpdump_analysis"
    /\ attempts[Len(attempts)].outcome = ReturnsTrue
    /\ packet_count = 0


C25_NoReply ==
    /\ NetConfig
    /\ pc = "discovered"
    /\ Len(attempts) = Len(broadcast_addresses)
    /\ found_devices = << >>
    /\ sock = "closed"


(***************************************************************************)
(* Claims about the direct scan of hesai_network_config                    *)
(***************************************************************************)
\* C26: ping_ip is True exactly for a candidate that answers the ping, and
\* scan_local_networks returns the first candidate for which it is True,
\* None when there is none: the scan pings no candidate after one that
\* answered, and returns that one.
C26_ReplyingCandidateFound ==
    NetConfig =>
      \A k \in 1..Len(invoked) :
         invoked[k][1] = "ping" =>
            IF invoked[k][3] = "reply"
              THEN /\ k < Len(invoked)
                   /\ invoked[k + 1][1] = "scan returns"
                   /\ invoked[k + 1][2] = << invoked[k][2] >>
              ELSE k < Len(invoked) => invoked[k + 1][1] = "ping"
                                         \/ invoked[k + 1][2] = << >>

\* C26, what the code has: the scan pings every candidate in order and
\* returns None
C26_ScanAlwaysReturnsNone ==
    NetConfig =>
      \A k \in 1..Len(invoked) :
         /\ invoked[k][1] = "scan returns" => invoked[k][2] = << >>
         /\ (invoked[k][1] = "ping" /\ pc \notin {"scan_local_networks",
                                                  "ping_ip"}) =>
               /\ k <= Len(Candidates(printed))
               /\ invoked[k][2] = Candidates(printed)[k]
               /\ invoked[Len(Candidates(printed)) + 1][1] = "scan returns"

\* the first candidate answered the ping, every candidate was pinged and
\* the scan returned None
C26_ReplyNotFound ==
    /\ NetConfig
    /\ pc = "scanned"
    /\ invoked[1][1] = "ping"
    /\ invoked[1][3] = "reply"
    /\ Len(invoked) = Len(CandidateOctets) + 1
    /\ found_devices = << >>


(***************************************************************************)
(* Claims about the packet counter of LidarBridge                          *)
(***************************************************************************)
RECURSIVE SumOfCounts(_)
\* the sum of the counts the status reports have logged
SumOfCounts(reports) ==
    IF reports = << >>
      THEN 0
      ELSE reports[1].count + SumOfCounts(Tail(reports))

\* neither thread is inside a statement that uses the counter
CounterAtRest ==
    /\ mainpc \in {"spin", "destroyed"}
    /\ pc \notin {"count", "connect_count"}

\* C27: in LidarBridge every datagram the reader thread receives is counted
\* once and processed, whatever the constructor and print_status do
\* meanwhile: no receive fails on the counter, and the counts the status
\* reports have logged, with what the counter holds since the last report,
\* add up to the number of datagrams received.
C27_EveryDatagramCountedOnce ==
    LidarBridge =>
      /\ skips = 0
      /\ CounterAtRest => SumOfCounts(attempts) + packet_count = idx

\* C27, what the code has: as long as no status report was made and no
\* datagram came before the constructor had set the counter, the counter is
\* the number of datagrams received.
C27_ExactWithoutInterleaving ==
    (LidarBridge /\ CounterAtRest /\ attempts = << >> /\ skips = 0) =>
        packet_count = idx

\* a datagram came while the constructor had not yet set the counter: the
\* receive ended with an error and the datagram was dropped
C27_DroppedInConstructor ==
    /\ LidarBridge
    /\ mainpc = "__init__"
    /\ cond = "Data"
    /\ printed = << "Data receive error" >>
    /\ idx = 1
    /\ skips = 1

\* a datagram was counted between the log and the reset of a status report:
\* one datagram was received and the reports hold none
C27_LostAtReset ==
    /\ LidarBridge
    /\ CounterAtRest
    /\ skips = 0
    /\ idx = 1
    /\ packet_count = 0
    /\ Len(attempts) = 2
    /\ SumOfCounts(attempts) = 0

\* the reader read the counter before a status report and stored it after:
\* one datagram received, counted in the report and again in the counter
C27_CountedTwice ==
    /\ LidarBridge
    /\ CounterAtRest
    /\ idx = 2
    /\ SumOfCounts(attempts) + packet_count = 3


(***************************************************************************)
(* Claims about the packet count of the sniffer                            *)
(***************************************************************************)
\* main has printed the success line of a method
SuccessReported ==
    \E i \in 1..Len(log) : log[i][1] = "SUCCESS"

\* the step adds to the packet count
CountIncreases == packet_count' > packet_count

\* in the step a method has observed a packet for the target port: a
\* datagram on the bound port, a raw packet that is a UDP packet to the
\* port, or packets the capture filter let through
ObservesMatchingPacket ==
    /\ cond' = "Data"
    /\ pc = "method3_recv" => MatchesTarget(sent'[Len(sent')].packet)

\* C28: in the sniffer ladder the shared packet count never decreases, it
\* increases only in a step in which a method observes a packet matching
\* the target port, and when main has ended a success was reported if and
\* only if the final packet count is at least 1.
C28_CountTracksSuccess ==
    /\ [](Sniffer /\ pc = "done" => (SuccessReported <=> packet_count >= 1))
    /\ [][Sniffer => /\ packet_count' >= packet_count
                     /\ CountIncreases => ObservesMatchingPacket]_vars

\* C28, what the code has: the count never decreases
C28_CountNeverDecreases ==
    [][Sniffer => packet_count' >= packet_count]_vars

\* C28, what the code has: a final count of at least 1 comes with a
\* reported success
C28_CountImpliesSuccess ==
    (Sniffer /\ pc = "done" /\ packet_count >= 1) => SuccessReported

\* C28, what the code has: a success of a method other than
\* method4_tcpdump_analysis comes with a final count of at least 1
C28_SuccessImpliesCountExceptTcpdump ==
    (Sniffer /\ pc = "done" /\ SuccessReported
       /\ attempts[Len(attempts)].method # "method4_tcpdump_analysis") =>
          packet_count >= 1

\* main has ended after the success of method4_tcpdump_analysis with a final
\* packet count of 0
C28_SuccessReportedCountZero ==
    /\ Sniffer
    /\ pc = "done"
    /\ SuccessReported
    /\ log[Len(log)] = <<"Final packet count", 0>>


(***************************************************************************)
(* Claims about the loop of hesai_xt16_activation.main                     *)
(***************************************************************************)
\* the place of an endpoint in the list the scan returned
PlaceOf(ip) == CHOOSE i \in 1..Len(found_devices) : found_devices[i] = ip

\* the steps of the trace of the given kind for the endpoint
StepsOf(kind, ip) ==
    { i \in 1..Len(invoked) : invoked[i][1] = kind /\ invoked[i][2] = ip }

\* the loop of main is at work or over
InLoop ==
    pc \in {"for", "send_activation_commands", "commands",
            "test_udp_data_port", "summary", "done"}

\* the endpoints are taken in scan order; the commands to an endpoint come
\* before its one capture; nothing follows a capture that was accepted
OrderOfLoop ==
    /\ \A i \in 1..Len(invoked) : \A j \in i..Len(invoked) :
          PlaceOf(invoked[i][2]) <= PlaceOf(invoked[j][2])
    /\ \A i \in 1..Len(invoked) :
          invoked[i][1] = "capture" =>
             /\ Cardinality(StepsOf("command", invoked[i][2])) = Len(commands)
             /\ \A j \in StepsOf("command", invoked[i][2]) : j < i
             /\ StepsOf("capture", invoked[i][2]) = {i}
    /\ success =>
          /\ invoked # << >>
          /\ invoked[Len(invoked)][1] = "capture"
          /\ attempts[Len(attempts)].outcome = ReturnsTrue
          /\ attempts[Len(attempts)].ip = invoked[Len(invoked)][2]
    /\ \A k \in 1..Len(attempts) :
          attempts[k].outcome = ReturnsTrue => k = Len(attempts)

\* the endpoints the loop is through with
Finished ==
    { found_devices[i] : i \in 1..(IF pc \in {"summary", "done"}
                                     THEN Len(found_devices)
                                     ELSE idx - 1) }

\* C29: in hesai_xt16_activation.main the endpoints are taken in scan order,
\* the activation commands to an endpoint are sent before its capture, the
\* capture of every endpoint the loop comes to is attempted whatever became
\* of the commands, and after the first accepted capture nothing is sent and
\* nothing captured.
C29_CommandsThenCaptureForEveryEndpoint ==
    (Hesai /\ InLoop /\ found_devices # << >>) =>
        /\ OrderOfLoop
        /\ \A ip \in Finished :
              (success => PlaceOf(ip) <= PlaceOf(invoked[Len(invoked)][2]))
                 => StepsOf("capture", ip) # {}

\* C29 as the code has it: the capture of an endpoint is attempted exactly
\* when send_activation_commands could make its control socket, whatever
\* became of the commands; an endpoint whose control socket could not be made
\* gets no command and no capture, and the loop goes on with the next.
C29_CaptureWheneverSocketMade ==
    (Hesai /\ InLoop /\ found_devices # << >>) =>
        /\ OrderOfLoop
        /\ \A ip \in Finished :
              (success => PlaceOf(ip) <= PlaceOf(invoked[Len(invoked)][2]))
                 => /\ StepsOf("capture", ip) # {} <=> StepsOf("socket", ip) # {}
                    /\ StepsOf("no socket", ip) # {} <=> StepsOf("socket", ip) = {}
                    /\ StepsOf("no socket", ip) # {} =>
                          StepsOf("command", ip) = {}

\* every sendto of the commands to an endpoint failed, and its capture was
\* attempted all the same and accepted
C29_Witness ==
    /\ Hesai
    /\ success
    /\ invoked # << >>
    /\ invoked[Len(invoked)][1] = "capture"
    /\ invoked[Len(invoked)][3] = "nothing sent"
    /\ Cardinality(StepsOf("command", invoked[Len(invoked)][2])) = Len(commands)

\* the capture of the first endpoint timed out, the capture of the second was
\* accepted, and the third endpoint was left alone
C29_NothingAfterAccepted ==
    /\ Hesai
    /\ pc = "done"
    /\ Len(found_devices) = 3
    /\ success
    /\ Len(attempts) = 2
    /\ attempts[1].cond = "Timeout"
    /\ StepsOf("capture", found_devices[2]) # {}
    /\ \A i \in 1..Len(invoked) : invoked[i][2] # found_devices[3]

\* the control socket for the first endpoint could not be made: no command
\* and no capture for it, and the loop went on to the second endpoint
C29_EndpointSkipped ==
    /\ Hesai
    /\ Len(found_devices) >= 2
    /\ invoked # << >>
    /\ invoked[1] = <<"no socket", found_devices[1]>>
    /\ StepsOf("capture", found_devices[1]) = {}
    /\ StepsOf("capture", found_devices[2]) # {}


(***************************************************************************)
(* Claims about the loop of quick_hesai_check.main                         *)
(***************************************************************************)
\* the loop of main is at work or over, with endpoints to take
QuickInLoop ==
    /\ QuickCheck
    /\ pc \in {"for", "test_udp_data", "send_activation_command",
               "test_again", "summary", "done"}
    /\ found_devices # << >>

\* the endpoints are taken in scan order, none left out, and the first step
\* for an endpoint is a capture
EveryEndpointInOrder ==
    /\ \A i \in 1..Len(invoked) : \A j \in i..Len(invoked) :
          PlaceOf(invoked[i][2]) <= PlaceOf(invoked[j][2])
    /\ \A ip \in Finished :
          /\ StepsOf("test_udp_data", ip) # {}
          /\ \A i \in StepsOf("send_activation_command", ip) :
                \E j \in StepsOf("test_udp_data", ip) : j < i

\* send_activation_command is called for an endpoint only after a first
\* capture without data, and at most once
CommandOnlyAfterNoData ==
    \A i \in 1..Len(invoked) :
       invoked[i][1] = "send_activation_command" =>
          /\ StepsOf("send_activation_command", invoked[i][2]) = {i}
          /\ i > 1
          /\ invoked[i - 1] = <<"test_udp_data", invoked[i][2], "no data">>
          /\ \A j \in StepsOf("test_udp_data", invoked[i][2]) :
                j < i => j = i - 1

\* the captures for the endpoint after step i of the trace
CapturesAfter(i, ip) == { j \in StepsOf("test_udp_data", ip) : j > i }

\* the flag is set exactly when a capture has received a datagram
FlagFromCapture ==
    success <=> \E i \in 1..Len(invoked) :
                   invoked[i][1] = "test_udp_data" /\ invoked[i][3] = "data"

\* C30: in quick_hesai_check.main every reachable endpoint is taken in scan
\* order, also after an earlier one succeeded; an activation command is sent
\* to an endpoint only after its first capture got no data, at most once, and
\* a command that was sent is followed by exactly one more capture for that
\* endpoint; the success flag is set by a capture that received a datagram
\* and by nothing else, and is never cleared.
C30_CommandSentThenOneMoreCapture ==
    QuickInLoop =>
        /\ EveryEndpointInOrder
        /\ CommandOnlyAfterNoData
        /\ FlagFromCapture
        /\ \A i \in 1..Len(invoked) :
              invoked[i][1] = "send_activation_command" =>
                 /\ Cardinality(CapturesAfter(i, invoked[i][2])) <= 1
                 /\ (invoked[i][2] \in Finished /\ invoked[i][3] = "sent") =>
                       Cardinality(CapturesAfter(i, invoked[i][2])) = 1

\* what the code does: the second capture follows exactly the calls of
\* send_activation_command that returned True; the order of the endpoints,
\* the first capture before the command and the flag are as C30 says
C30_SecondCaptureIffCallReturnedTrue ==
    QuickInLoop =>
        /\ EveryEndpointInOrder
        /\ CommandOnlyAfterNoData
        /\ FlagFromCapture
        /\ \A i \in 1..Len(invoked) :
              invoked[i][1] = "send_activation_command" =>
                 /\ Cardinality(CapturesAfter(i, invoked[i][2])) <= 1
                 /\ invoked[i][2] \in Finished =>
                       (CapturesAfter(i, invoked[i][2]) # {}
                          <=> invoked[i][4] = ReturnsTrue)

\* the flag is never cleared
C30_FlagNeverCleared ==
    [][(QuickCheck /\ success) => success']_vars

\* sendto took the command, the wait for the response ended with an error
\* that is no timeout, and main went on to the next endpoint without a
\* second capture
C30_SentWithoutSecondCapture ==
    /\ QuickInLoop
    /\ pc = "done"
    /\ \E i \in 1..Len(invoked) :
          /\ invoked[i][1] = "send_activation_command"
          /\ invoked[i][3] = "sent"
          /\ invoked[i][4] = ReturnsFalse
          /\ CapturesAfter(i, invoked[i][2]) = {}

\* the first endpoint succeeded at its first capture and the second endpoint
\* was taken all the same: captured, activated and captured again
C30_LaterEndpointAfterSuccess ==
    /\ QuickInLoop
    /\ pc = "done"
    /\ Len(found_devices) >= 2
    /\ invoked[1] = <<"test_udp_data", found_devices[1], "data">>
    /\ Cardinality(StepsOf("test_udp_data", found_devices[2])) = 2
    /\ Cardinality(StepsOf("send_activation_command", found_devices[2])) = 1

====
